---- MODULE Spec2Model ----
(***************************************************************************)
(* A model of cloudsync's reconciliation engine: SyncEntry / SyncState /   *)
(* SyncManager of cloudsync/sync.py, running against two providers that    *)
(* behave as cloudsync/providers/box.py does (stable oids, a name in use   *)
(* is CloudFileExistsError, a missing parent is CloudFileNotFoundError).   *)
(*                                                                         *)
(* Encoding.  A path is a sequence of tokens: the first token is the root  *)
(* of a side ("/local", "/remote"), "/" separates components, a component  *)
(* is a one-letter name and ".conflicted" is the suffix the engine adds.   *)
(* <<"/local", "/", "a", ".conflicted">> is "/local/a.conflicted" and      *)
(* <<"/">> is the provider's root folder.  None is <<>> for a path and 0   *)
(* for an oid, a hash, a temp file or a storage id.  `changed` holds a     *)
(* timestamp in the code and only its truthiness is read: it is a BOOLEAN. *)
(***************************************************************************)
EXTENDS Integers, Sequences, FiniteSets, TLC

\* ------------------------------------------------------------------ bounds
MaxNames == 2
MaxContent == 2
MaxUserOps == 3
MaxDeleteOps == 4
MaxRenameNames == 3
MaxRenameOps == 3
MaxCycleFiles == 3
MaxCycleNames == 4
MaxDiscardOps == 4
MaxCycleOps == 4
MaxTicks == 4

\* ------------------------------------------------------- program constants
\* LOCAL of sync.py (LOCAL is a reserved word of TLA+)
LOCALSIDE == 0
REMOTE == 1
FINISHED == 1
REQUEUE == 0

Sides == {LOCALSIDE, REMOTE}
NoPath == <<>>
RootDir == <<"/">>
CONFLICTED == ".conflicted"
NameTok == <<"a", "b", "c", "d", "e">>
Names == {NameTok[i] : i \in 1..MaxNames}
Contents == 1..MaxContent

other_side(index) == 1 - index

\* the digest a provider reports for a content (box.py hash_data: sha1)
HashOf(content) == IF content = 0 THEN 0 ELSE 100 + content

SideRoot(side) == IF side = LOCALSIDE THEN "/local" ELSE "/remote"

\* ------------------------------------------------------------------- paths
\* Python's str comparison on the strings the token sequences stand for:
\* '.' < '/' < letters, "/local" < "/remote", a proper prefix is smaller.
\* (Root tokens only occur first, so a root is never compared with "/".)
Rank(t) ==
    CASE t = ".conflicted" -> 1
      [] t = "/" -> 2
      [] t = "/local" -> 3
      [] t = "/remote" -> 4
      [] t = "a" -> 5
      [] t = "b" -> 6
      [] t = "c" -> 7
      [] t = "d" -> 8
      [] t = "e" -> 9

RECURSIVE StrGT(_, _)
StrGT(p, q) ==
    IF p = <<>> THEN FALSE
    ELSE IF q = <<>> THEN TRUE
    ELSE IF Head(p) = Head(q) THEN StrGT(Tail(p), Tail(q))
    ELSE Rank(Head(p)) > Rank(Head(q))

\* The translator of the test fixture:
\*   to == LOCALSIDE:  "/local"  + path.replace("/remote", "")
\*   to == REMOTE: "/remote" + path.replace("/local", "")
translate(to, path) ==
    <<SideRoot(to)>> \o SelectSeq(path, LAMBDA t : t # SideRoot(other_side(to)))

\* SyncManager.translate of a run: the fixture's translator, but None for a
\* path with a component among the ignored names
self_translate(M, to, path) ==
    IF \E i \in 1..Len(path) : path[i] \in M.ignored THEN NoPath ELSE translate(to, path)

\* Provider.split(path)[0]: everything before the last separator; the
\* separator itself when the last one is the leading character.
LastSep(path) ==
    LET idx == {i \in 1..Len(path) : path[i] = "/"}
    IN IF idx = {} THEN 0 ELSE CHOOSE i \in idx : \A j \in idx : j <= i

Parent(path) ==
    IF path = RootDir THEN RootDir
    ELSE IF LastSep(path) <= 1 THEN RootDir
    ELSE SubSeq(path, 1, LastSep(path) - 1)

IsPrefix(p, q) == Len(p) <= Len(q) /\ SubSeq(q, 1, Len(p)) = p

\* Provider.is_subpath(folder, target), strict=False.  The arguments are
\* strings: sequences of characters, of which "/" is Provider.sep and "\\"
\* is Provider.alt_sep.  The value is False (found is FALSE) or a string.
is_subpath(folder, target) ==
    LET replace(x) == [i \in 1..Len(x) |-> IF x[i] = "\\" THEN "/" ELSE x[i]]
        rstrip(x) == SubSeq(x, 1, CHOOSE n \in 0..Len(x) :
                                      /\ n > 0 => x[n] # "/"
                                      /\ \A i \in (n + 1)..Len(x) : x[i] = "/")
        folder_full == rstrip(replace(folder))
        target_full == rstrip(replace(target))
    IN IF folder_full = target_full THEN [found |-> TRUE, str |-> <<"/">>]
       ELSE IF Len(target_full) > Len(folder_full) /\ target_full[Len(folder_full) + 1] = "/"
       THEN IF IsPrefix(folder_full, target_full)
            THEN [found |-> TRUE,
                  str |-> SubSeq(target_full, Len(folder_full) + 1, Len(target_full))]
            ELSE [found |-> FALSE, str |-> <<>>]
       ELSE [found |-> FALSE, str |-> <<>>]

\* Provider.replace_path: retval is computed and `relative` is returned
replace_path(path, from_dir, to_dir) ==
    LET relative == is_subpath(from_dir, path)
        retval == to_dir \o (IF relative.str # <<"/">> THEN relative.str ELSE <<>>)
    IN IF relative.found /\ relative.str # <<>>
       THEN [exc |-> "none", ret |-> IF relative.str # <<>> THEN relative.str ELSE <<"/">>]
       ELSE [exc |-> "ValueError", ret |-> <<>>]

\* ------------------------------------------------------- provider (box.py)
\* A provider is the sequence of the objects it ever held, indexed by oid:
\* [path, content, otype, alive].  The root folder "/" always exists.
FILE == "file"
DIRECTORY == "dir"

Alive(pr, oid) == oid \in 1..Len(pr) /\ pr[oid].alive

AtPath(pr, path) == {o \in 1..Len(pr) : pr[o].alive /\ pr[o].path = path}

OidAt(pr, path) == IF AtPath(pr, path) = {} THEN 0 ELSE CHOOSE o \in AtPath(pr, path) : TRUE

IsFolderPath(pr, path) ==
    path = RootDir \/ \E o \in AtPath(pr, path) : pr[o].otype = DIRECTORY

IsFilePath(pr, path) == \E o \in AtPath(pr, path) : pr[o].otype = FILE

Children(pr, oid) ==
    {o \in 1..Len(pr) : pr[o].alive /\ o # oid /\ Parent(pr[o].path) = pr[oid].path}

\* the outcome of one provider call
PRes(pr, exc, oid, hash, path) ==
    [pr |-> pr, exc |-> exc, oid |-> oid, hash |-> hash, path |-> path]

\* the error a strict lookup of the parent folder of `path` gives
ParentError(pr, path) ==
    IF IsFolderPath(pr, Parent(path)) THEN "none"
    ELSE IF IsFilePath(pr, Parent(path)) THEN "Exists"
    ELSE "NotFound"

ProvInfoOidHash(pr, oid) ==
    IF Alive(pr, oid) /\ pr[oid].otype = FILE THEN HashOf(pr[oid].content) ELSE 0

ProvHashOid(pr, oid) == ProvInfoOidHash(pr, oid)

ProvExistsOid(pr, oid) == Alive(pr, oid)

ProvInfoOidPath(pr, oid) == IF Alive(pr, oid) THEN pr[oid].path ELSE NoPath

ProvCreate(pr, path, content) ==
    IF ParentError(pr, path) # "none" THEN PRes(pr, ParentError(pr, path), 0, 0, NoPath)
    ELSE IF AtPath(pr, path) # {} THEN PRes(pr, "Exists", 0, 0, NoPath)
    ELSE PRes(Append(pr, [path |-> path, content |-> content, otype |-> FILE, alive |-> TRUE]),
              "none", Len(pr) + 1, HashOf(content), path)

ProvUpload(pr, oid, content) ==
    IF ~Alive(pr, oid) THEN PRes(pr, "NotFound", 0, 0, NoPath)
    ELSE IF pr[oid].otype # FILE THEN PRes(pr, "Exists", 0, 0, NoPath)
    ELSE PRes([pr EXCEPT ![oid].content = content], "none", oid, HashOf(content), pr[oid].path)

\* download gives [exc, content]
ProvDownload(pr, oid) ==
    IF ~Alive(pr, oid) THEN [exc |-> "NotFound", content |-> 0]
    ELSE IF pr[oid].otype # FILE THEN [exc |-> "Exists", content |-> 0]
    ELSE [exc |-> "none", content |-> pr[oid].content]

\* the object and everything below it move to the new path
MovePaths(pr, oid, path) ==
    LET old == pr[oid].path
    IN [o \in 1..Len(pr) |->
          IF o = oid THEN [pr[o] EXCEPT !.path = path]
          ELSE IF pr[o].alive /\ IsPrefix(old \o <<"/">>, pr[o].path)
               THEN [pr[o] EXCEPT !.path = path \o SubSeq(pr[o].path, Len(old) + 1, Len(pr[o].path))]
               ELSE pr[o]]

ProvRename(pr, oid, path) ==
    IF ~Alive(pr, oid) THEN PRes(pr, "NotFound", 0, 0, NoPath)
    ELSE LET others == AtPath(pr, path) \ {oid}
             same == Parent(pr[oid].path) = Parent(path)
         IN IF ~same /\ ParentError(pr, path) # "none"
            THEN PRes(pr, ParentError(pr, path), 0, 0, NoPath)
            ELSE IF others = {} THEN PRes(MovePaths(pr, oid, path), "none", oid, 0, path)
            ELSE LET x == CHOOSE o \in others : TRUE
                 IN IF same /\ pr[oid].otype = DIRECTORY /\ pr[x].otype = DIRECTORY
                       /\ Children(pr, x) = {}
                    THEN PRes(MovePaths([pr EXCEPT ![x].alive = FALSE], oid, path),
                              "none", oid, 0, path)
                    ELSE PRes(pr, "Exists", 0, 0, NoPath)

ProvMkdir(pr, path) ==
    IF ParentError(pr, path) # "none" THEN PRes(pr, ParentError(pr, path), 0, 0, NoPath)
    ELSE IF AtPath(pr, path) # {}
         THEN IF IsFolderPath(pr, path) THEN PRes(pr, "none", OidAt(pr, path), 0, path)
              ELSE PRes(pr, "Exists", 0, 0, NoPath)
    ELSE PRes(Append(pr, [path |-> path, content |-> 0, otype |-> DIRECTORY, alive |-> TRUE]),
              "none", Len(pr) + 1, 0, path)

ProvDelete(pr, oid) ==
    IF ~Alive(pr, oid) THEN PRes(pr, "none", 0, 0, NoPath)
    ELSE IF pr[oid].otype = DIRECTORY /\ Children(pr, oid) # {}
         THEN PRes(pr, "Exists", 0, 0, NoPath)
    ELSE PRes([pr EXCEPT ![oid].alive = FALSE], "none", oid, 0, NoPath)

\* ------------------------------------------------------------ dictionaries
\* A Python dict is a function whose domain is its key set.
EmptyDict == [k \in {} |-> 0]

Put(f, k, v) == [x \in (DOMAIN f) \cup {k} |-> IF x = k THEN v ELSE f[x]]

Del(f, k) == [x \in (DOMAIN f) \ {k} |-> f[x]]

Values(f) == {f[k] : k \in DOMAIN f}

\* ------------------------------------------------- SideState and SyncEntry
UNKNOWN == "UNKNOWN"
EXISTS == "EXISTS"
TRASHED == "TRASHED"
\* an argument left at None
NOARG == "None"

SideState ==
    [oid |-> 0, path |-> NoPath, hash |-> 0, sync_hash |-> 0, sync_path |-> NoPath,
     exists |-> UNKNOWN, changed |-> FALSE]

SyncEntry(otype) ==
    [st |-> [s \in Sides |-> SideState], otype |-> otype, temp_file |-> 0,
     discarded |-> FALSE, storage_id |-> 0, dirty |-> TRUE]

\* A hash is None (0), the empty byte string (EMPTYBYTES) or a one-byte
\* digest (1..255); bytes.hex() and bytes.fromhex() on the two hex digits.
EMPTYBYTES == -1

Hex(h) == IF h = EMPTYBYTES THEN <<>> ELSE <<h \div 16, h % 16>>

FromHex(x) == IF x = <<>> THEN EMPTYBYTES ELSE 16 * x[1] + x[2]

\* a JSON value that is null or a string
JNull == [null |-> TRUE, str |-> <<>>]

JStr(x) == [null |-> FALSE, str |-> x]

\* Python's truth value of a value loaded from JSON: null and "" are false
Truthy(j) == ~j.null /\ j.str # <<>>

\* Exists.value, and the setter of SideState.exists applied to it
ExistsValue(x) ==
    CASE x = UNKNOWN -> "null"
      [] x = EXISTS -> "true"
      [] x = TRASHED -> "false"

ExistsSetter(v) ==
    CASE v = "false" -> TRASHED
      [] v = "true" -> EXISTS
      [] v = "null" -> UNKNOWN

side_state_to_dict(side, side_state) ==
    [side |-> side,
     hash |-> IF side_state.hash # 0 THEN JStr(Hex(side_state.hash)) ELSE JNull,
     changed |-> side_state.changed,
     sync_hash |-> IF side_state.sync_hash # 0 THEN JStr(Hex(side_state.sync_hash)) ELSE JNull,
     path |-> side_state.path,
     sync_path |-> side_state.sync_path,
     oid |-> side_state.oid,
     exists |-> ExistsValue(side_state.exists)]

\* SyncEntry.serialize: the side states, otype, temp_file and discarded;
\* storage_id and dirty are not part of the blob.
serialize(ent) ==
    [side0 |-> side_state_to_dict(0, ent.st[0]), side1 |-> side_state_to_dict(1, ent.st[1]),
     otype |-> ent.otype, temp_file |-> ent.temp_file, discarded |-> ent.discarded]

dict_to_side_state(side_dict) ==
    [oid |-> side_dict.oid,
     path |-> side_dict.path,
     hash |-> IF Truthy(side_dict.hash) THEN FromHex(side_dict.hash.str) ELSE 0,
     sync_hash |-> IF Truthy(side_dict.sync_hash) THEN FromHex(side_dict.sync_hash.str) ELSE 0,
     sync_path |-> side_dict.sync_path,
     exists |-> ExistsSetter(side_dict.exists),
     changed |-> side_dict.changed]

\* SyncEntry.deserialize: the fields of the blob loaded into ent
deserialize(ent, storage_id, ser) ==
    [ent EXCEPT !.storage_id = storage_id,
                !.st = [s \in Sides |->
                           dict_to_side_state(IF s = 0 THEN ser.side0 ELSE ser.side1)],
                !.otype = ser.otype,
                !.temp_file = ser.temp_file,
                !.discarded = ser.discarded]

\* SyncEntry(None, storage_init)
SyncEntry_storage_init(storage_id, ser) ==
    [deserialize(SyncEntry(NOARG), storage_id, ser) EXCEPT !.dirty = FALSE]

hash_conflict(ent) ==
    IF ent.st[0].hash # 0 /\ ent.st[1].hash # 0
    THEN ent.st[0].hash # ent.st[0].sync_hash /\ ent.st[1].hash # ent.st[1].sync_hash
    ELSE FALSE

path_conflict(ent) ==
    IF ent.st[0].path # NoPath /\ ent.st[1].path # NoPath
    THEN ent.st[0].path # ent.st[0].sync_path /\ ent.st[1].path # ent.st[1].sync_path
    ELSE FALSE

is_path_change(ent, changed) == ent.st[changed].path # ent.st[changed].sync_path

is_creation(ent, changed) == ent.st[changed].sync_path = NoPath

\* ------------------------------------------------------------ the machine
\* Every operation of the engine is a function of the whole program state:
\*   ents     the SyncEntry objects ever made, by identity (1, 2, ...)
\*   oids     SyncState._oids:  side -> {oid -> entry}
\*   paths    SyncState._paths: side -> {path -> {oid -> entry}}
\*   cs       SyncState._changeset
\*   prov     the two providers
\*   tmp      the files of SyncManager.tempdir: {name -> content}
\*   store    the rows of the Storage: {storage id -> blob}
\*   nsid     the next id Storage.create gives
\*   exc      the exception in flight ("none" when there is none)
\*   calls    the provider operations issued so far in this operation
\*   branch   the branch SyncManager.sync took
Ok(M) == M.exc = "none"

Raise(M, x) == [M EXCEPT !.exc = x]

Called(M, op, side) == [M EXCEPT !.calls = @ \cup {<<op, side>>}]

\* SideState.exists setter applied to a bool
ExistsOf(b) == IF b THEN EXISTS ELSE TRASHED

lookup_oid(M, side, oid) == IF oid \in DOMAIN M.oids[side] THEN M.oids[side][oid] ELSE 0

lookup_path(M, side, path) ==
    IF path \in DOMAIN M.paths[side] THEN Values(M.paths[side][path]) ELSE {}

_change_oid(M, side, e, oid) ==
    LET old == M.ents[e].st[side].oid
        popped == IF old # 0 THEN Del(M.oids[side], old) ELSE M.oids[side]
    IN IF oid # 0
       THEN [M EXCEPT !.oids[side] = Put(popped, oid, e),
                      !.ents[e].st[side].oid = oid,
                      !.ents[e].dirty = TRUE]
       ELSE [M EXCEPT !.oids[side] = popped]

_change_path(M, side, e, path) ==
    LET o == M.ents[e].st[side].oid
        p0 == M.ents[e].st[side].path
        P == M.paths[side]
    IN IF o = 0 THEN Raise(M, "AssertionError")
       ELSE IF p0 # NoPath /\ p0 \notin DOMAIN P THEN Raise(M, "KeyError")
       ELSE LET P1 == IF p0 = NoPath THEN P
                      ELSE IF Del(P[p0], o) = EmptyDict THEN Del(P, p0)
                      ELSE Put(P, p0, Del(P[p0], o))
                bucket == IF path \in DOMAIN P1 THEN P1[path] ELSE EmptyDict
            IN IF path # NoPath
               THEN [M EXCEPT !.paths[side] = Put(P1, path, Put(bucket, o, e)),
                              !.ents[e].st[side].path = path,
                              !.ents[e].dirty = TRUE]
               ELSE [M EXCEPT !.paths[side] = P1]

\* A function body is cut where a later statement needs the machine an
\* earlier call left: f_step(M, ...) is the body of f from `step` on, and
\* takes the machine (or the machine and value) of the statements before.
update_entry_oid(M, e, side, oid) ==
    IF oid # 0 THEN _change_oid(M, side, e, oid) ELSE M

update_entry_path(M, e, side, path) ==
    IF path # NoPath THEN _change_path(M, side, e, path) ELSE M

update_entry_rest(M, e, side, hash, exists) ==
    IF ~Ok(M) THEN M
    ELSE [M EXCEPT !.ents[e].st[side].hash = IF hash # 0 THEN hash ELSE @,
                   !.ents[e].st[side].exists = IF exists # NOARG THEN exists ELSE @,
                   !.ents[e].dirty = IF hash # 0 \/ exists # NOARG THEN TRUE ELSE @]

update_entry(M, e, side, oid, path, hash, exists) ==
    update_entry_rest(
        update_entry_path(update_entry_oid(M, e, side, oid), e, side, path),
        e, side, hash, exists)

\* storage_update writing the row of a discarded entry instead of deleting it
storage_update_keep_row(M, e) ==
    LET ent == M.ents[e]
    IN IF ent.storage_id # 0
       THEN [M EXCEPT !.store = Put(@, ent.storage_id, serialize(ent)),
                      !.ents[e].dirty = FALSE]
       ELSE IF ent.discarded THEN Raise(M, "AssertionError")
       ELSE [M EXCEPT !.store = Put(@, M.nsid, serialize(ent)),
                      !.nsid = @ + 1,
                      !.ents[e].storage_id = M.nsid,
                      !.ents[e].dirty = FALSE]

storage_update(M, e) ==
    LET ent == M.ents[e]
    IN IF ent.storage_id # 0
       THEN IF ent.discarded
            THEN [M EXCEPT !.store = Del(@, ent.storage_id), !.ents[e].dirty = FALSE]
            ELSE [M EXCEPT !.store = Put(@, ent.storage_id, serialize(ent)),
                           !.ents[e].dirty = FALSE]
       ELSE IF ent.discarded THEN Raise(M, "AssertionError")
       ELSE [M EXCEPT !.store = Put(@, M.nsid, serialize(ent)),
                      !.nsid = @ + 1,
                      !.ents[e].storage_id = M.nsid,
                      !.ents[e].dirty = FALSE]

\* SyncState.update: the entry of the oid (a new one when the oid is not
\* known), updated through the indices, marked changed, queued, persisted.
update_queue(M, e, side) ==
    IF ~Ok(M) THEN M
    ELSE storage_update([M EXCEPT !.ents[e].st[side].changed = TRUE, !.cs = @ \cup {e}], e)

update(M, side, otype, oid, path, hash, exists) ==
    LET found == lookup_oid(M, side, oid)
        e == IF found = 0 THEN Len(M.ents) + 1 ELSE found
    IN update_queue(
           update_entry(IF found = 0 THEN [M EXCEPT !.ents = Append(@, SyncEntry(otype))]
                        ELSE M,
                        e, side, oid, path, hash, exists),
           e, side)

\* SyncState.finished
state_finished(M, e) ==
    IF M.ents[e].st[1].changed \/ M.ents[e].st[0].changed THEN M
    ELSE IF e \notin M.cs THEN Raise(M, "KeyError")
    ELSE [M EXCEPT !.cs = @ \ {e}]

get_all(M) ==
    {e \in Values(M.oids[LOCALSIDE]) \cup Values(M.oids[REMOTE]) : ~M.ents[e].discarded}

entry_count(M) == Cardinality(get_all(M))

\* SyncState(storage, tag): every row of read_all(tag) becomes an entry,
\* filed under its oid and its path on both sides whether they are set or
\* None; a later row replaces an earlier one under the same key. The rows
\* are taken in the order of their ids.
RECURSIVE SortedIds(_)
SortedIds(S) ==
    IF S = {} THEN <<>>
    ELSE LET m == CHOOSE x \in S : \A y \in S : x <= y
         IN <<m>> \o SortedIds(S \ {m})

rehydrate_ents(rows) ==
    [i \in 1..Len(SortedIds(DOMAIN rows)) |->
        SyncEntry_storage_init(SortedIds(DOMAIN rows)[i], rows[SortedIds(DOMAIN rows)[i]])]

LastOf(I) == CHOOSE i \in I : \A j \in I : j <= i

rehydrate_oids(E, side) ==
    [o \in {E[i].st[side].oid : i \in 1..Len(E)} |->
        LastOf({i \in 1..Len(E) : E[i].st[side].oid = o})]

rehydrate_paths(E, side) ==
    [p \in {E[i].st[side].path : i \in 1..Len(E)} |->
        [o \in {E[i].st[side].oid : i \in {j \in 1..Len(E) : E[j].st[side].path = p}} |->
            LastOf({i \in 1..Len(E) : E[i].st[side].path = p /\ E[i].st[side].oid = o})]]

SyncState_storage(M) ==
    [M EXCEPT !.ents = rehydrate_ents(M.store),
              !.oids = [s \in Sides |-> rehydrate_oids(rehydrate_ents(M.store), s)],
              !.paths = [s \in Sides |-> rehydrate_paths(rehydrate_ents(M.store), s)],
              !.cs = {}]

\* ------------------------------------------------------------- SyncManager
\* the value of a function that also changes the machine
Ret(M, ret) == [M |-> M, ret |-> ret]

\* get_latest_state refreshing a side whether it is changed or not
get_latest_side_always(M, e, i) ==
    LET ent == M.ents[e]
        h == ProvHashOid(M.prov[i], ent.st[i].oid)
    IN IF ent.otype = FILE
       THEN [M EXCEPT !.ents[e].st[i].hash = h,
                      !.ents[e].st[i].exists = IF h # 0 THEN EXISTS ELSE TRASHED,
                      !.ents[e].dirty = TRUE]
       ELSE [M EXCEPT !.ents[e].st[i].exists = ExistsOf(ProvExistsOid(M.prov[i], ent.st[i].oid)),
                      !.ents[e].dirty = TRUE]

get_latest_side(M, e, i) ==
    LET ent == M.ents[e]
        h == ProvHashOid(M.prov[i], ent.st[i].oid)
    IN IF ~ent.st[i].changed THEN M
       ELSE IF ent.otype = FILE
       THEN [M EXCEPT !.ents[e].st[i].hash = h,
                      !.ents[e].st[i].exists = IF h # 0 THEN EXISTS ELSE TRASHED,
                      !.ents[e].dirty = TRUE]
       ELSE [M EXCEPT !.ents[e].st[i].exists = ExistsOf(ProvExistsOid(M.prov[i], ent.st[i].oid)),
                      !.ents[e].dirty = TRUE]

get_latest_state(M, e) == get_latest_side(get_latest_side(M, e, LOCALSIDE), e, REMOTE)

\* SyncManager.temp_file(str(hash)): the name is made of the hash
temp_file(ohash) == IF ohash = 0 THEN -1 ELSE ohash

finished_unlink(M, e) ==
    IF ~Ok(M) THEN M
    ELSE IF M.ents[e].temp_file # 0
    THEN [M EXCEPT !.tmp = Del(@, M.ents[e].temp_file), !.ents[e].temp_file = 0]
    ELSE M

finished(M, side, e) ==
    finished_unlink(state_finished([M EXCEPT !.ents[e].st[side].changed = FALSE], e), e)

download_changed(M, changed, e) ==
    LET tf == IF M.ents[e].temp_file # 0 THEN M.ents[e].temp_file
              ELSE temp_file(M.ents[e].st[changed].hash)
        M1 == [M EXCEPT !.ents[e].temp_file = tf]
        oid == M.ents[e].st[changed].oid
        d == ProvDownload(M.prov[changed], oid)
    IN IF oid = 0 THEN Ret(Raise(M1, "AssertionError"), FALSE)
       ELSE IF tf \in DOMAIN M1.tmp THEN Ret(M1, TRUE)
       ELSE IF d.exc = "NotFound"
            THEN Ret([M1 EXCEPT !.ents[e].st[changed].exists = TRASHED], FALSE)
       ELSE IF d.exc # "none" THEN Ret(Raise(M1, d.exc), FALSE)
       ELSE Ret([M1 EXCEPT !.tmp = Put(@, tf, d.content)], TRUE)

\* Box.info_path(path).oid, 0 when there is nothing at the path
ProvInfoPath(pr, path) ==
    IF path # RootDir /\ ParentError(pr, path) = "Exists" THEN [exc |-> "Exists", oid |-> 0]
    ELSE [exc |-> "none", oid |-> OidAt(pr, path)]

\* mkdirs after the parent was made: the second prov.mkdir(path)
mkdirs_again(up, side, path) ==
    LET r2 == ProvMkdir(up.M.prov[side], path)
    IN IF ~Ok(up.M) THEN up
       ELSE IF r2.exc = "NotFound" THEN Ret(Raise(up.M, "Exists"), 0)
       ELSE IF r2.exc # "none" THEN Ret(Raise(up.M, r2.exc), 0)
       ELSE Ret([up.M EXCEPT !.prov[side] = r2.pr], r2.oid)

RECURSIVE mkdirs(_, _, _)
mkdirs(M0, side, path) ==
    LET r == ProvMkdir(M0.prov[side], path)
        info == ProvInfoPath(M0.prov[side], path)
        M == Called(M0, "mkdir", side)
    IN IF r.exc = "none" THEN Ret([M EXCEPT !.prov[side] = r.pr], r.oid)
       ELSE IF r.exc = "Exists"
       THEN IF info.exc # "none" THEN Ret(Raise(M, info.exc), 0)
            ELSE IF info.oid # 0 THEN Ret(M, info.oid)
            ELSE Ret(Raise(M, "Exists"), 0)
       ELSE \* CloudFileNotFoundError
            IF Parent(path) = path THEN Ret(Raise(M, "NotFound"), 0)
            ELSE mkdirs_again(mkdirs(M, side, Parent(path)), side, path)

\* mkdir_synced keeping the duplicate directory entries
discard_none(M, todo) == M

\* ent.discard(); self.syncs.storage_update(ent) for each of `todo` in turn
RECURSIVE discard_all(_, _)
discard_all(M, todo) ==
    IF todo = {} \/ ~Ok(M) THEN M
    ELSE LET x == CHOOSE y \in todo : \A z \in todo : y <= z
         IN discard_all(storage_update([M EXCEPT !.ents[x].discarded = TRUE,
                                                 !.ents[x].dirty = TRUE], x),
                        todo \ {x})

\* the other entries at the path of e on the changed side
mkdir_synced_ents(M, changed, e) ==
    lookup_path(M, changed, M.ents[e].st[changed].path) \ {e}

mkdir_synced_dirs(M, changed, e) ==
    {x \in mkdir_synced_ents(M, changed, e) : M.ents[x].otype = DIRECTORY}

mkdir_synced_record(M, changed, e, translated_path, oid) ==
    IF ~Ok(M) THEN M
    ELSE update_entry(
             [M EXCEPT !.ents[e].st[other_side(changed)].sync_path = translated_path,
                       !.ents[e].st[changed].sync_path = M.ents[e].st[changed].path],
             e, other_side(changed), oid, translated_path, 0, EXISTS)

mkdir_synced_made(mk, changed, e, translated_path) ==
    IF mk.M.exc = "NotFound" THEN Raise(mk.M, "NotImplementedError")
    ELSE IF ~Ok(mk.M) THEN mk.M
    ELSE mkdir_synced_record(discard_all(mk.M, mkdir_synced_dirs(mk.M, changed, e)),
                             changed, e, translated_path, mk.ret)

mkdir_synced_try(M, ents, changed, e, translated_path) ==
    IF ~Ok(M) THEN M
    ELSE IF {x \in ents : ~M.ents[x].discarded
                          /\ M.ents[x].st[changed].exists # TRASHED
                          /\ M.ents[x].st[other_side(changed)].exists # TRASHED} # {}
    THEN Raise(M, "NotImplementedError")
    ELSE mkdir_synced_made(mkdirs(M, other_side(changed), translated_path),
                           changed, e, translated_path)

mkdir_synced(M, changed, e, translated_path) ==
    mkdir_synced_try(discard_all(M, mkdir_synced_dirs(M, changed, e)),
                     mkdir_synced_ents(M, changed, e), changed, e, translated_path)

\* upload_synced recording the hashes without sending the content
upload_synced_unsent(M, changed, e) ==
    LET synced == other_side(changed)
        ent == M.ents[e]
    IN update_entry(
           [M EXCEPT !.ents[e].st[synced].sync_hash = ent.st[changed].hash,
                     !.ents[e].st[changed].sync_hash = ent.st[changed].hash,
                     !.ents[e].st[changed].sync_path = ent.st[changed].path],
           e, synced, ent.st[synced].oid, ent.st[synced].path, 0, EXISTS)

upload_synced(M, changed, e) ==
    LET synced == other_side(changed)
        ent == M.ents[e]
        r == ProvUpload(M.prov[synced], ent.st[synced].oid, M.tmp[ent.temp_file])
        M1 == Called([M EXCEPT !.prov[synced] = r.pr], "upload", synced)
        sp == IF r.path # NoPath THEN r.path ELSE ent.st[synced].path
    IN IF ent.temp_file \notin DOMAIN M.tmp THEN Raise(M, "FileNotFoundError")
       ELSE IF r.exc = "NotFound" THEN Raise(M1, "NotImplementedError")
       ELSE IF r.exc # "none" THEN Raise(M1, r.exc)
       ELSE update_entry(
                [M1 EXCEPT !.ents[e].st[synced].sync_hash = r.hash,
                           !.ents[e].st[synced].sync_path = sp,
                           !.ents[e].st[changed].sync_hash = ent.st[changed].hash,
                           !.ents[e].st[changed].sync_path = ent.st[changed].path],
                e, synced, r.oid, sp, 0, EXISTS)

\* _create_synced writing the sync witnesses before the provider answers
_create_synced_early(M, changed, e, translated_path) ==
    LET synced == other_side(changed)
        ent == M.ents[e]
        r == ProvCreate(M.prov[synced], translated_path, M.tmp[ent.temp_file])
        M1 == Called([M EXCEPT !.prov[synced] = r.pr,
                               !.ents[e].st[synced].sync_path = translated_path,
                               !.ents[e].st[changed].sync_hash = ent.st[changed].hash,
                               !.ents[e].st[changed].sync_path = ent.st[changed].path],
                     "create", synced)
        sp == IF r.path # NoPath THEN r.path ELSE translated_path
    IN IF ent.temp_file \notin DOMAIN M.tmp THEN Raise(M, "FileNotFoundError")
       ELSE IF r.exc # "none" THEN Raise(M1, r.exc)
       ELSE update_entry(
                [M1 EXCEPT !.ents[e].st[synced].sync_hash = r.hash,
                           !.ents[e].st[synced].sync_path = sp],
                e, synced, r.oid, sp, 0, EXISTS)

_create_synced(M, changed, e, translated_path) ==
    LET synced == other_side(changed)
        ent == M.ents[e]
        r == ProvCreate(M.prov[synced], translated_path, M.tmp[ent.temp_file])
        M1 == Called([M EXCEPT !.prov[synced] = r.pr], "create", synced)
        sp == IF r.path # NoPath THEN r.path ELSE translated_path
    IN IF ent.temp_file \notin DOMAIN M.tmp THEN Raise(M, "FileNotFoundError")
       ELSE IF r.exc # "none" THEN Raise(M1, r.exc)
       ELSE update_entry(
                [M1 EXCEPT !.ents[e].st[synced].sync_hash = r.hash,
                           !.ents[e].st[synced].sync_path = sp,
                           !.ents[e].st[changed].sync_hash = ent.st[changed].hash,
                           !.ents[e].st[changed].sync_path = ent.st[changed].path],
                e, synced, r.oid, sp, 0, EXISTS)

\* create_synced after mkdirs: the second _create_synced. The provider is
\* shared with other clients: when M.race is a content, another client has
\* made a file with it at the path between the two attempts.
create_synced_retry(mk, changed, e, translated_path) ==
    IF ~Ok(mk.M) THEN Ret(mk.M, REQUEUE)
    ELSE IF mk.M.race = 0
    THEN Ret(_create_synced(mk.M, changed, e, translated_path), FINISHED)
    ELSE Ret(_create_synced(
                 [mk.M EXCEPT !.prov[other_side(changed)] =
                                  ProvCreate(@, translated_path, mk.M.race).pr],
                 changed, e, translated_path),
             FINISHED)

\* create_synced without the retry after mkdirs
create_synced_no_retry(first, changed, e, translated_path) ==
    IF Ok(first) THEN Ret(first, FINISHED)
    ELSE IF first.exc = "NotFound"
    THEN Ret(mkdirs([first EXCEPT !.exc = "none"], other_side(changed),
                    Parent(translated_path)).M, REQUEUE)
    ELSE IF first.exc = "Exists" THEN Ret([first EXCEPT !.exc = "none"], REQUEUE)
    ELSE Ret(first, REQUEUE)

\* An exception raised inside an except clause is not caught by the try's
\* other clauses: only the first attempt's CloudFileExistsError is REQUEUE.
create_synced_except(first, changed, e, translated_path) ==
    IF Ok(first) THEN Ret(first, FINISHED)
    ELSE IF first.exc = "NotFound"
    THEN create_synced_retry(mkdirs([first EXCEPT !.exc = "none"], other_side(changed),
                                    Parent(translated_path)),
                             changed, e, translated_path)
    ELSE IF first.exc = "Exists" THEN Ret([first EXCEPT !.exc = "none"], REQUEUE)
    ELSE Ret(first, REQUEUE)

create_synced(M, changed, e, translated_path) ==
    create_synced_except(_create_synced(M, changed, e, translated_path),
                         changed, e, translated_path)

\* delete_synced marking the other side TRASHED only after a provider call
delete_synced_unmarked(M, e, changed, synced) ==
    LET ent == M.ents[e]
        ents == lookup_path(M, changed, ent.st[changed].path) \ {e}
        r == ProvDelete(M.prov[synced], ent.st[synced].oid)
        M1 == Called([M EXCEPT !.prov[synced] = r.pr], "delete", synced)
    IN IF ents = {}
       THEN IF ent.st[synced].oid # 0
            THEN IF r.exc \in {"none", "NotFound"}
                 THEN [M1 EXCEPT !.exc = "none", !.ents[e].st[synced].exists = TRASHED]
                 ELSE Raise(M1, r.exc)
            ELSE M
       ELSE [M EXCEPT !.ents[e].discarded = TRUE, !.ents[e].dirty = TRUE]

delete_synced(M, e, changed, synced) ==
    LET ent == M.ents[e]
        ents == lookup_path(M, changed, ent.st[changed].path) \ {e}
        r == ProvDelete(M.prov[synced], ent.st[synced].oid)
        M1 == Called([M EXCEPT !.prov[synced] = r.pr], "delete", synced)
    IN IF ents = {}
       THEN IF ent.st[synced].oid # 0
            THEN IF r.exc \in {"none", "NotFound"}
                 THEN [M1 EXCEPT !.exc = "none", !.ents[e].st[synced].exists = TRASHED]
                 ELSE Raise(M1, r.exc)
            ELSE [M EXCEPT !.ents[e].st[synced].exists = TRASHED]
       ELSE [M EXCEPT !.ents[e].discarded = TRUE, !.ents[e].dirty = TRUE]

handle_split_conflict_defer(M, defer_ent, defer_side) ==
    IF ~Ok(M) THEN M
    ELSE [M EXCEPT !.ents[defer_ent].st[defer_side].changed = TRUE]

handle_split_conflict(M, defer_ent, defer_side, replace_ent, replace_side) ==
    LET replace == M.ents[replace_ent].st[replace_side]
        conflict_path == replace.path \o <<CONFLICTED>>
        r == ProvRename(M.prov[replace_side], replace.oid, conflict_path)
    IN IF replace.path = NoPath THEN Raise(M, "TypeError")
       ELSE IF r.exc # "none" THEN Raise(Called(M, "rename", replace_side), r.exc)
       ELSE handle_split_conflict_defer(
                update_entry(Called([M EXCEPT !.prov[replace_side] = r.pr],
                                    "rename", replace_side),
                             replace_ent, replace_side, replace.oid, conflict_path, 0, EXISTS),
                defer_ent, defer_side)

\* check_disjoint_create finding no other entry at the translated path
check_disjoint_create_none(M, e, changed, synced, translated_path) == Ret(M, FALSE)

check_disjoint_create(M, e, changed, synced, translated_path) ==
    LET other_ents == lookup_path(M, synced, translated_path) \ {e}
        other_untrashed_ents ==
            {x \in other_ents : M.ents[x].st[synced].exists # TRASHED
                                /\ M.ents[x].st[changed].exists # TRASHED}
    IN IF M.ents[e].otype # FILE THEN Ret(M, FALSE)
       ELSE IF other_ents = {} THEN Ret(M, FALSE)
       ELSE IF other_untrashed_ents = {} THEN Ret(M, FALSE)
       ELSE IF Cardinality(other_untrashed_ents) # 1 THEN Ret(Raise(M, "AssertionError"), FALSE)
       ELSE Ret(handle_split_conflict(M, CHOOSE x \in other_untrashed_ents : TRUE, synced,
                                      e, changed), TRUE)

update_sync_path(M, e, changed) ==
    LET oid == M.ents[e].st[changed].oid
        path == ProvInfoOidPath(M.prov[changed], oid)
    IN IF oid = 0 THEN Raise(M, "AssertionError")
       ELSE IF ~Alive(M.prov[changed], oid)
       THEN [M EXCEPT !.ents[e].st[changed].exists = TRASHED]
       ELSE update_entry(M, e, changed, oid, path, 0, EXISTS)

\* handle_path_change_or_creation, a creation, after download_changed
creation_transfer(dl, e, changed, translated_path) ==
    IF ~Ok(dl.M) THEN Ret(dl.M, REQUEUE)
    ELSE IF ~dl.ret THEN Ret(dl.M, FINISHED)
    ELSE IF dl.M.ents[e].st[other_side(changed)].oid # 0
    THEN Ret(upload_synced(dl.M, changed, e), FINISHED)
    ELSE create_synced(dl.M, changed, e, translated_path)

\* handle_path_change_or_creation, a creation, after check_disjoint_create
creation_checked(cdc, e, changed, translated_path) ==
    IF ~Ok(cdc.M) THEN Ret(cdc.M, REQUEUE)
    ELSE IF cdc.ret THEN Ret(cdc.M, REQUEUE)
    ELSE IF cdc.M.ents[e].st[changed].sync_hash # 0
    THEN Ret(Raise(cdc.M, "AssertionError"), REQUEUE)
    ELSE IF cdc.M.ents[e].otype = DIRECTORY
    THEN Ret(mkdir_synced(cdc.M, changed, e, translated_path), FINISHED)
    ELSE creation_transfer(download_changed(cdc.M, changed, e), e, changed, translated_path)

\* the rename branch recording the new paths without renaming the object
rename_synced_unmoved(M, e, changed, synced, translated_path) ==
    Ret([Called(M, "rename", synced)
            EXCEPT !.ents[e].st[synced].path = translated_path,
                   !.ents[e].st[synced].sync_path = translated_path,
                   !.ents[e].st[changed].sync_path = M.ents[e].st[changed].path],
        FINISHED)

\* handle_path_change_or_creation, a path change: the rename of the
\* counterpart and the three assignments after it
rename_synced(M, e, changed, synced, translated_path) ==
    LET ent == M.ents[e]
        ren == ProvRename(M.prov[synced], ent.st[synced].oid, translated_path)
    IN IF ent.st[synced].oid = 0 THEN Ret(Raise(M, "AssertionError"), REQUEUE)
       ELSE IF ren.exc # "none" THEN Ret(Raise(Called(M, "rename", synced), ren.exc), REQUEUE)
       ELSE Ret([Called(M, "rename", synced)
                    EXCEPT !.prov[synced] = ren.pr,
                           !.ents[e].st[synced].path = translated_path,
                           !.ents[e].st[synced].sync_path = translated_path,
                           !.ents[e].st[changed].sync_path = ent.st[changed].path],
                FINISHED)

\* handle_path_change_or_creation once the path is translated
path_translated(M, e, changed, synced, translated_path) ==
    IF is_creation(M.ents[e], changed)
    THEN creation_checked(check_disjoint_create(M, e, changed, synced, translated_path),
                          e, changed, translated_path)
    ELSE rename_synced(M, e, changed, synced, translated_path)

\* handle_path_change_or_creation going on with whatever the translator gave
path_change_or_creation_unchecked(M, e, changed, synced) ==
    path_translated(M, e, changed, synced,
                    self_translate(M, synced, M.ents[e].st[changed].path))

\* handle_path_change_or_creation once sync[changed].path is known; a path
\* the translator gives None for is ignored
path_change_or_creation(M, e, changed, synced) ==
    IF self_translate(M, synced, M.ents[e].st[changed].path) = NoPath THEN Ret(M, FINISHED)
    ELSE path_translated(M, e, changed, synced,
                         self_translate(M, synced, M.ents[e].st[changed].path))

\* handle_path_change_or_creation after update_sync_path
path_updated(M, e, changed, synced) ==
    IF ~Ok(M) THEN Ret(M, REQUEUE)
    ELSE IF M.ents[e].st[changed].exists = TRASHED THEN Ret(M, REQUEUE)
    ELSE path_change_or_creation(M, e, changed, synced)

handle_path_change_or_creation(M, e, changed, synced) ==
    path_updated(IF M.ents[e].st[changed].path = NoPath
                 THEN update_sync_path(M, e, changed)
                 ELSE M,
                 e, changed, synced)

\* embrace_change, changed content, after download_changed
embrace_upload(dl, changed, e) ==
    IF ~Ok(dl.M) THEN Ret(dl.M, FINISHED)
    ELSE Ret(upload_synced(dl.M, changed, e), FINISHED)

embrace_change(M, e, changed, synced) ==
    LET ent == M.ents[e]
    IN IF ent.st[changed].exists = TRASHED
       THEN Ret(delete_synced(M, e, changed, synced), FINISHED)
       ELSE IF is_path_change(ent, changed) \/ is_creation(ent, changed)
       THEN handle_path_change_or_creation(M, e, changed, synced)
       ELSE IF ent.st[changed].hash # ent.st[changed].sync_hash
       THEN IF ent.st[synced].oid = 0 THEN Ret(Raise(M, "AssertionError"), FINISHED)
            ELSE embrace_upload(download_changed(M, changed, e), changed, e)
       ELSE Ret(M, FINISHED)

\* SyncState has no method split: the call raises AttributeError before
\* handle_split_conflict is reached.
handle_hash_conflict(M, e) == Raise(M, "AttributeError")

\* handle_path_conflict comparing the two paths as names of one side
handle_path_conflict_by_name(M, e) ==
    LET path1 == translate(REMOTE, M.ents[e].st[0].path)
        path2 == M.ents[e].st[1].path
        pick == IF StrGT(path1, path2) THEN 0 ELSE 1
        oside == other_side(pick)
        other == M.ents[e].st[oside]
        other_path == self_translate(M, oside, M.ents[e].st[pick].path)
        r == ProvRename(M.prov[oside], other.oid, other_path)
        M1 == Called([M EXCEPT !.prov[oside] = r.pr], "rename", oside)
    IN IF other_path = NoPath THEN M
       ELSE IF r.exc # "none" THEN Raise(M1, r.exc)
       ELSE update_entry(M1, e, oside, other.oid, other_path, 0, EXISTS)

handle_path_conflict(M, e) ==
    LET path1 == M.ents[e].st[0].path
        path2 == M.ents[e].st[1].path
        pick == IF StrGT(path1, path2) THEN 0 ELSE 1
        oside == other_side(pick)
        other == M.ents[e].st[oside]
        other_path == self_translate(M, oside, M.ents[e].st[pick].path)
        r == ProvRename(M.prov[oside], other.oid, other_path)
        M1 == Called([M EXCEPT !.prov[oside] = r.pr], "rename", oside)
    IN IF other_path = NoPath THEN M
       ELSE IF r.exc # "none" THEN Raise(M1, r.exc)
       ELSE update_entry(M1, e, oside, other.oid, other_path, 0, EXISTS)

\* the side sync() hands to embrace_change: the first with changed set
first_changed(ent) ==
    IF ent.st[LOCALSIDE].changed THEN LOCALSIDE
    ELSE IF ent.st[REMOTE].changed THEN REMOTE
    ELSE -1

\* sync marking the side finished although embrace_change raised
sync_response_anyway(emb, i, e) ==
    IF ~Ok(emb.M) \/ emb.ret = FINISHED THEN finished([emb.M EXCEPT !.resp = emb.ret], i, e)
    ELSE [emb.M EXCEPT !.resp = emb.ret]

\* sync after embrace_change returned
sync_response(emb, i, e) ==
    IF ~Ok(emb.M) THEN emb.M
    ELSE IF emb.ret = FINISHED THEN finished([emb.M EXCEPT !.resp = emb.ret], i, e)
    ELSE [emb.M EXCEPT !.resp = emb.ret]

\* sync after get_latest_state
sync_latest(M, e) ==
    IF hash_conflict(M.ents[e])
    THEN handle_hash_conflict([M EXCEPT !.branch = "hash_conflict"], e)
    ELSE IF path_conflict(M.ents[e])
    THEN handle_path_conflict([M EXCEPT !.branch = "path_conflict"], e)
    ELSE IF first_changed(M.ents[e]) = -1 THEN M
    ELSE sync_response(
             embrace_change([M EXCEPT !.branch = "embrace", !.side = first_changed(M.ents[e])],
                            e, first_changed(M.ents[e]), other_side(first_changed(M.ents[e]))),
             first_changed(M.ents[e]), e)

sync(M, e) == sync_latest(get_latest_state(M, e), e)

\* do after sync returned: storage_update, skipped by an exception
do_persist(M, e) == IF ~Ok(M) THEN M ELSE storage_update(M, e)

\* SyncManager.do for the entry change() returned
do(M, e) == do_persist(sync(M, e), e)

\* ------------------------------------------------------- the state machine
VARIABLES
    ents,       \* the SyncEntry objects, by identity
    oids,       \* SyncState._oids
    paths,      \* SyncState._paths
    changeset,  \* SyncState._changeset
    prov,       \* the objects of the two providers
    tmp,        \* the temp files of the manager
    store,      \* the rows of the storage
    nsid,       \* the next storage id
    last,       \* what the last operation was and did (observation only)
    users,      \* the sides on which the user acts in this run
    ops,        \* the number of user operations so far
    budget,     \* the number of user operations of this run
    names,      \* the file names the user works with in this run
    ignored,    \* the file names the translator of this run gives no path for
    quiet       \* TRUE once the user has stopped: no further external change

vars == <<ents, oids, paths, changeset, prov, tmp, store, nsid, last, users, ops, budget, names, ignored, quiet>>

\* the program state as the engine's functions take it
Mach ==
    [ents |-> ents, oids |-> oids, paths |-> paths, cs |-> changeset, prov |-> prov,
     tmp |-> tmp, store |-> store, nsid |-> nsid, ignored |-> ignored, race |-> 0,
     exc |-> "none", calls |-> {}, branch |-> "none", side |-> -1, resp |-> -1]

Commit(M, kind, e) ==
    /\ ents' = M.ents
    /\ oids' = M.oids
    /\ paths' = M.paths
    /\ changeset' = M.cs
    /\ prov' = M.prov
    /\ tmp' = M.tmp
    /\ store' = M.store
    /\ nsid' = M.nsid
    /\ last' = [kind |-> kind, ent |-> e, exc |-> M.exc, calls |-> M.calls,
                branch |-> M.branch, side |-> M.side, resp |-> M.resp,
                args |-> <<>>, ret |-> <<>>]

NoLast == [kind |-> "init", ent |-> 0, exc |-> "none", calls |-> {},
           branch |-> "none", side |-> -1, resp |-> -1, args |-> <<>>, ret |-> <<>>]

RootObj(side) == [path |-> <<SideRoot(side)>>, content |-> 0, otype |-> DIRECTORY, alive |-> TRUE]

FilePath(side, name) == <<SideRoot(side), "/", name>>

\* SyncState() and SyncManager over two providers; the root folder of a
\* side exists already or not (the tests make it without telling the state).
InitEngine ==
    /\ ents = <<>>
    /\ oids = [s \in Sides |-> EmptyDict]
    /\ paths = [s \in Sides |-> EmptyDict]
    /\ changeset = {}
    /\ tmp = EmptyDict
    /\ store = EmptyDict
    /\ nsid = 1
    /\ last = NoLast
    /\ ops = 0
    /\ quiet = FALSE

Init ==
    /\ InitEngine
    /\ \E R \in SUBSET Sides :
           prov = [s \in Sides |-> IF s \in R THEN <<RootObj(s)>> ELSE <<>>]
    /\ users = Sides
    /\ budget = MaxUserOps
    /\ names = Names
    /\ ignored = {}

\* the entry update() works on
EntryOf(M, side, oid) ==
    IF lookup_oid(M, side, oid) = 0 THEN Len(M.ents) + 1 ELSE lookup_oid(M, side, oid)

UserStep == ~quiet /\ ops < budget /\ ops' = ops + 1 /\ UNCHANGED <<users, budget, names, ignored, quiet>>

\* the user creates a file and the event reaches SyncState.update
UserCreate ==
    \E side \in users, name \in names, content \in Contents :
        LET r == ProvCreate(prov[side], FilePath(side, name), content)
            M == [Mach EXCEPT !.prov[side] = r.pr]
        IN /\ UserStep
           /\ r.exc = "none"
           /\ Commit(update(M, side, FILE, r.oid, r.path, r.hash, EXISTS),
                     "create", EntryOf(M, side, r.oid))

\* the user writes new content to a file (update without a path)
UserUpload ==
    \E side \in users, content \in Contents :
        \E oid \in 1..Len(prov[side]) :
            LET r == ProvUpload(prov[side], oid, content)
                M == [Mach EXCEPT !.prov[side] = r.pr]
            IN /\ UserStep
               /\ r.exc = "none"
               /\ prov[side][oid].content # content
               /\ Commit(update(M, side, FILE, oid, NoPath, r.hash, EXISTS),
                         "upload", EntryOf(M, side, oid))

\* the user renames a file
UserRename ==
    \E side \in users, name \in names :
        \E oid \in 1..Len(prov[side]) :
            LET r == ProvRename(prov[side], oid, FilePath(side, name))
                M == [Mach EXCEPT !.prov[side] = r.pr]
            IN /\ UserStep
               /\ Alive(prov[side], oid)
               /\ prov[side][oid].otype = FILE
               /\ prov[side][oid].path # FilePath(side, name)
               /\ r.exc = "none"
               /\ Commit(update(M, side, FILE, oid, FilePath(side, name),
                                ProvHashOid(r.pr, oid), EXISTS),
                         "rename", EntryOf(M, side, oid))

\* the user deletes a file or an empty folder (update with exists=False)
UserDelete ==
    \E side \in users :
        \E oid \in 1..Len(prov[side]) :
            LET r == ProvDelete(prov[side], oid)
                M == [Mach EXCEPT !.prov[side] = r.pr]
            IN /\ UserStep
               /\ Alive(prov[side], oid)
               /\ r.exc = "none"
               /\ Commit(update(M, side, prov[side][oid].otype, oid, NoPath, 0, TRASHED),
                         "delete", EntryOf(M, side, oid))

\* the user makes a folder: the root of the side or a folder in it
UserMkdir ==
    \E side \in users :
        \E path \in {<<SideRoot(side)>>} \cup {FilePath(side, n) : n \in names} :
            LET r == ProvMkdir(prov[side], path)
                M == [Mach EXCEPT !.prov[side] = r.pr]
            IN /\ UserStep
               /\ AtPath(prov[side], path) = {}
               /\ r.exc = "none"
               /\ Commit(update(M, side, DIRECTORY, r.oid, path, 0, EXISTS),
                         "mkdir", EntryOf(M, side, r.oid))

\* the user stops: from here on there is no external change
Quiesce ==
    /\ ~quiet
    /\ quiet' = TRUE
    /\ UNCHANGED <<ents, oids, paths, changeset, prov, tmp, store, nsid, last, users, ops, budget, names, ignored>>

\* SyncState.change(): a random member of the changeset; a discarded one
\* is removed and the draw repeated
\* change() taking no member of the changeset for discarded
Discarded_none(S) == {}

Discarded(S) == {e \in S : ents[e].discarded}

\* one tick of SyncManager.do() in which change() returns entry e
TickOn(e) ==
    /\ e \in changeset \ Discarded(changeset)
    /\ \E D \in SUBSET Discarded(changeset) :
           Commit(do([Mach EXCEPT !.cs = @ \ D], e), "tick", e)
    /\ UNCHANGED <<users, ops, budget, names, ignored, quiet>>

\* one tick in which change() finds only discarded entries and returns None
TickNone ==
    /\ changeset # {}
    /\ Discarded(changeset) = changeset
    /\ Commit([Mach EXCEPT !.cs = {}], "tick", 0)
    /\ UNCHANGED <<users, ops, budget, names, ignored, quiet>>

Tick == \E e \in 1..Len(ents) : TickOn(e)

\* one tick of do() during which another client of the provider makes a
\* file at the path the engine is creating, after the engine has made the
\* parent folders and before it tries the create again
TickRaced ==
    \E e \in changeset \ Discarded(changeset), k \in Contents :
        /\ ents[e].otype = FILE
        /\ \E c \in Sides :
              /\ ents[e].st[c].changed
              /\ ents[e].st[c].path # NoPath
              /\ ents[e].st[other_side(c)].oid = 0
              /\ AtPath(prov[other_side(c)],
                        Parent(translate(other_side(c), ents[e].st[c].path))) = {}
        /\ Commit(do([Mach EXCEPT !.race = k], e), "tick", e)
        /\ UNCHANGED <<users, ops, budget, names, ignored, quiet>>

Next ==
    \/ UserCreate
    \/ UserUpload
    \/ UserRename
    \/ UserDelete
    \/ UserMkdir
    \/ Quiesce
    \/ Tick
    \/ TickNone

Spec == Init /\ [][Next]_vars

\* runs in which the user of one side only creates and deletes, over
\* existing root folders
InitDelete ==
    /\ InitEngine
    /\ prov = [s \in Sides |-> <<RootObj(s)>>]
    /\ \E c \in Sides : users = {c}
    /\ budget = MaxDeleteOps
    /\ names = Names
    /\ ignored = {}

NextDelete ==
    \/ UserCreate
    \/ UserDelete
    \/ Quiesce
    \/ Tick

SpecDelete == InitDelete /\ [][NextDelete]_vars

\* runs in which the users create files and rename them among three names,
\* over existing root folders
RenameNames == {NameTok[i] : i \in 1..MaxRenameNames}

InitRename ==
    /\ InitEngine
    /\ prov = [s \in Sides |-> <<RootObj(s)>>]
    /\ users = Sides
    /\ budget = MaxRenameOps
    /\ names = RenameNames
    /\ ignored = {}

NextRename ==
    \/ UserCreate
    \/ UserRename
    \/ Quiesce
    \/ Tick

SpecRename == InitRename /\ [][NextRename]_vars

\* runs of the rename cycle: files a, b, c are made on LOCAL one after the
\* other, each synced to REMOTE by a tick before the next is made; then
\* the user of LOCAL renames files among four names
CycleNames == {NameTok[i] : i \in 1..MaxCycleNames}

EmptyMach ==
    [ents |-> <<>>, oids |-> [s \in Sides |-> EmptyDict], paths |-> [s \in Sides |-> EmptyDict],
     cs |-> {}, prov |-> [s \in Sides |-> <<RootObj(s)>>], tmp |-> EmptyDict,
     store |-> EmptyDict, nsid |-> 1, ignored |-> {}, race |-> 0,
     exc |-> "none", calls |-> {}, branch |-> "none", side |-> -1, resp |-> -1]

\* the provider's create on LOCAL, the update for it, and one tick
SyncedCreate(M, r) ==
    do(update([M EXCEPT !.prov[LOCALSIDE] = r.pr], LOCALSIDE, FILE, r.oid, r.path, r.hash, EXISTS),
       EntryOf(M, LOCALSIDE, r.oid))

RECURSIVE SyncedFiles(_)
SyncedFiles(k) ==
    IF k = 0 THEN EmptyMach
    ELSE [SyncedCreate(SyncedFiles(k - 1),
                       ProvCreate(SyncedFiles(k - 1).prov[LOCALSIDE],
                                  FilePath(LOCALSIDE, NameTok[k]), k))
            EXCEPT !.calls = {}, !.branch = "none", !.side = -1, !.resp = -1]

InitCycle ==
    /\ ents = SyncedFiles(MaxCycleFiles).ents
    /\ oids = SyncedFiles(MaxCycleFiles).oids
    /\ paths = SyncedFiles(MaxCycleFiles).paths
    /\ changeset = SyncedFiles(MaxCycleFiles).cs
    /\ prov = SyncedFiles(MaxCycleFiles).prov
    /\ tmp = SyncedFiles(MaxCycleFiles).tmp
    /\ store = SyncedFiles(MaxCycleFiles).store
    /\ nsid = SyncedFiles(MaxCycleFiles).nsid
    /\ last = NoLast
    /\ ops = 0
    /\ quiet = FALSE
    /\ users = {LOCALSIDE}
    /\ budget = MaxCycleOps
    /\ names = CycleNames
    /\ ignored = {}

NextCycle ==
    \/ UserRename
    \/ Quiesce
    \/ Tick

SpecCycle == InitCycle /\ [][NextCycle]_vars


\* the process stops and starts again: a new SyncState is constructed from
\* the storage; the providers, the storage and the temp files stay
Restart ==
    /\ ~quiet
    /\ quiet' = TRUE
    /\ Commit(SyncState_storage(Mach), "restart", 0)
    /\ UNCHANGED <<users, ops, budget, names, ignored>>

\* runs that end with a restart, over existing root folders
InitRestart ==
    /\ InitEngine
    /\ prov = [s \in Sides |-> <<RootObj(s)>>]
    /\ users = Sides
    /\ budget = MaxUserOps
    /\ names = Names
    /\ ignored = {}

NextRestart ==
    \/ UserCreate
    \/ UserUpload
    \/ UserRename
    \/ UserDelete
    \/ UserMkdir
    \/ Tick
    \/ TickNone
    \/ Restart

SpecRestart == InitRestart /\ [][NextRestart]_vars

\* SyncState.storage_update called on an entry that is dirty
StorageUpdate ==
    \E e \in 1..Len(ents) :
        /\ ents[e].dirty
        /\ Commit(storage_update(Mach, e), "storage_update", e)
        /\ UNCHANGED <<users, ops, budget, names, ignored, quiet>>

\* the values the fields of a side take in the entries to serialize
SerialHashes == {0, EMPTYBYTES} \cup {HashOf(c) : c \in Contents}

SerialSideStates(side) ==
    [oid : {0, 2}, path : {NoPath, FilePath(side, NameTok[1])}, hash : SerialHashes,
     sync_hash : SerialHashes, sync_path : {NoPath, FilePath(side, NameTok[1])},
     exists : {UNKNOWN, EXISTS, TRASHED}, changed : BOOLEAN]

SyncedSideState(side) ==
    [oid |-> 2, path |-> FilePath(side, NameTok[1]), hash |-> HashOf(1), sync_hash |-> HashOf(1),
     sync_path |-> FilePath(side, NameTok[1]), exists |-> EXISTS, changed |-> FALSE]

\* a SyncState that holds one entry, not yet persisted: one side takes every
\* combination of field values, the other is empty or synced
InitSerial ==
    /\ \E c \in Sides : \E x \in SerialSideStates(c),
          y \in {SideState, SyncedSideState(other_side(c))},
          otype \in {FILE, DIRECTORY}, tf \in {0, HashOf(1)}, d \in BOOLEAN :
           /\ ents = <<[st |-> [s \in Sides |-> IF s = c THEN x ELSE y], otype |-> otype,
                        temp_file |-> tf, discarded |-> d, storage_id |-> 0, dirty |-> TRUE]>>
           /\ changeset = IF x.changed THEN {1} ELSE {}
    /\ oids = [s \in Sides |->
                  IF ents[1].st[s].oid # 0 THEN Put(EmptyDict, ents[1].st[s].oid, 1) ELSE EmptyDict]
    /\ paths = [s \in Sides |->
                   IF ents[1].st[s].oid # 0 /\ ents[1].st[s].path # NoPath
                   THEN Put(EmptyDict, ents[1].st[s].path, Put(EmptyDict, ents[1].st[s].oid, 1))
                   ELSE EmptyDict]
    /\ prov = [s \in Sides |-> <<RootObj(s)>>]
    /\ tmp = EmptyDict
    /\ store = EmptyDict
    /\ nsid = 1
    /\ last = NoLast
    /\ ops = 0
    /\ quiet = FALSE
    /\ users = {}
    /\ budget = 0
    /\ names = Names
    /\ ignored = {}

NextSerial ==
    \/ StorageUpdate
    \/ Restart

SpecSerial == InitSerial /\ [][NextSerial]_vars

\* runs with a translator that gives no path for the first name, over
\* existing root folders
InitIgnore ==
    /\ InitEngine
    /\ prov = [s \in Sides |-> <<RootObj(s)>>]
    /\ users = Sides
    /\ budget = MaxUserOps
    /\ names = Names
    /\ ignored = {NameTok[1]}

NextIgnore ==
    \/ UserCreate
    \/ UserUpload
    \/ UserRename
    \/ UserDelete
    \/ Quiesce
    \/ Tick

SpecIgnore == InitIgnore /\ [][NextIgnore]_vars

\* the provider's event for the engine's own write reaches update(): the
\* last tick propagated a create, an upload or a rename of entry last.ent
\* to side s and finished the entry, and the event reports the object as
\* the provider now has it (same oid, its path, its hash)
Echo ==
    \E s \in Sides :
        /\ last.kind = "tick"
        /\ last.exc = "none"
        /\ last.branch = "embrace"
        /\ last.resp = FINISHED
        /\ last.ent \in 1..Len(ents)
        /\ s = other_side(last.side)
        /\ \E op \in {"create", "upload", "rename"} : <<op, s>> \in last.calls
        /\ last.ent \notin changeset
        /\ ents[last.ent].otype = FILE
        /\ Alive(prov[s], ents[last.ent].st[s].oid)
        /\ Commit(update(Mach, s, FILE, ents[last.ent].st[s].oid,
                         ProvInfoOidPath(prov[s], ents[last.ent].st[s].oid),
                         ProvHashOid(prov[s], ents[last.ent].st[s].oid), EXISTS),
                  "echo", last.ent)
        /\ UNCHANGED <<users, ops, budget, names, ignored, quiet>>

\* runs in which the events of the engine's own writes come back, over
\* existing root folders
InitEcho ==
    /\ InitEngine
    /\ prov = [s \in Sides |-> <<RootObj(s)>>]
    /\ users = Sides
    /\ budget = MaxUserOps
    /\ names = Names
    /\ ignored = {}

NextEcho ==
    \/ UserCreate
    \/ UserUpload
    \/ UserRename
    \/ Tick
    \/ Echo

SpecEcho == InitEcho /\ [][NextEcho]_vars

\* runs in which the users make, write and delete files and folders at one
\* name, over existing root folders: an entry is discarded and the user
\* goes on working
InitDiscard ==
    /\ InitEngine
    /\ prov = [s \in Sides |-> <<RootObj(s)>>]
    /\ users = Sides
    /\ budget = MaxDiscardOps
    /\ names = {NameTok[1]}
    /\ ignored = {}

NextDiscard ==
    \/ UserCreate
    \/ UserUpload
    \/ UserDelete
    \/ UserMkdir
    \/ Tick
    \/ TickNone

SpecDiscard == InitDiscard /\ [][NextDiscard]_vars

\* runs of every kind of user operation under either translator (the one
\* of the fixture, or one that gives no path for the first name), on
\* providers that another client may write to during a tick
InitEither ==
    /\ InitEngine
    /\ \E R \in SUBSET Sides :
           prov = [s \in Sides |-> IF s \in R THEN <<RootObj(s)>> ELSE <<>>]
    /\ users = Sides
    /\ budget = MaxUserOps
    /\ names = Names
    /\ \E I \in {{}, {NameTok[1]}} : ignored = I

NextEither ==
    \/ UserCreate
    \/ UserUpload
    \/ UserRename
    \/ UserDelete
    \/ UserMkdir
    \/ Tick
    \/ TickNone
    \/ TickRaced

SpecEither == InitEither /\ [][NextEither]_vars

\* the user deletes a file and the event has not reached update(): the
\* events of a provider are delivered some time after the change
UserDeleteUnseen ==
    \E side \in users :
        \E oid \in 1..Len(prov[side]) :
            /\ UserStep
            /\ Alive(prov[side], oid)
            /\ prov[side][oid].otype = FILE
            /\ Commit([Mach EXCEPT !.prov[side] = ProvDelete(prov[side], oid).pr],
                      "unseen", EntryOf(Mach, side, oid))

\* one tick of do() on entry e during which the user writes content k to
\* the file of the side being processed and the event reaches update():
\* nothing in SyncState or SyncManager excludes an update() between
\* embrace_change returning and finished() running
TickInterleaved ==
    \E e \in changeset \ Discarded(changeset), k \in Contents :
        LET M0 == get_latest_state(Mach, e)
            c == first_changed(M0.ents[e])
            emb == embrace_change([M0 EXCEPT !.branch = "embrace", !.side = c],
                                  e, c, other_side(c))
            oid == emb.M.ents[e].st[c].oid
            w == ProvUpload(emb.M.prov[c], oid, k)
            upd == update([emb.M EXCEPT !.prov[c] = w.pr], c, FILE, oid, NoPath, w.hash, EXISTS)
        IN /\ UserStep
           /\ ents[e].otype = FILE
           /\ ~hash_conflict(M0.ents[e])
           /\ ~path_conflict(M0.ents[e])
           /\ c \in users
           /\ Ok(emb.M)
           /\ w.exc = "none"
           /\ emb.M.prov[c][oid].content # k
           /\ Commit(do_persist(sync_response([emb EXCEPT !.M = upd], c, e), e),
                     "interleaved", e)

\* runs in which events reach update() late or while a tick is under way,
\* at one name, over existing root folders
NextEvents ==
    \/ UserCreate
    \/ UserUpload
    \/ UserDeleteUnseen
    \/ Tick
    \/ TickInterleaved

SpecEvents == InitDiscard /\ [][NextEvents]_vars

\* Provider.replace_path(path, from_dir, to_dir) called on strings made of
\* the separators and two letters; the arguments and what the call
\* returned or raised are kept in `last`
ReplacePath ==
    LET strings == {<<"/">>, <<"/", "a">>, <<"/", "a", "/">>, <<"/", "b">>,
                    <<"/", "a", "/", "b">>, <<"/", "a", "b">>, <<"\\", "a", "\\", "b">>}
    IN \E path \in strings, from_dir \in strings, to_dir \in strings :
           /\ last' = [NoLast EXCEPT !.kind = "replace_path",
                                     !.args = <<path, from_dir, to_dir>>,
                                     !.exc = replace_path(path, from_dir, to_dir).exc,
                                     !.ret = replace_path(path, from_dir, to_dir).ret]
           /\ UNCHANGED <<ents, oids, paths, changeset, prov, tmp, store, nsid, users, ops,
                          budget, names, ignored, quiet>>

SpecPaths == InitEcho /\ [][ReplacePath]_vars

\* ------------------------------------------------------------------ claims
\* the step is a tick of do() in which change() returned entry E
TickedOn(E) == last'.kind = "tick" /\ last'.ent = E

\* entry E is a file the user made at name n on side c, ingested and not yet
\* propagated, and the other side has nothing there: no object at the
\* translated path and no entry recorded at it; the user has stopped.
OnlyOn(E, c, n) ==
    /\ quiet
    /\ E \in changeset
    /\ ~ents[E].discarded
    /\ ents[E].otype = FILE
    /\ ents[E].st[c].changed
    /\ Alive(prov[c], ents[E].st[c].oid)
    /\ prov[c][ents[E].st[c].oid].path = FilePath(c, n)
    /\ ents[E].st[c].path = FilePath(c, n)
    /\ ents[E].st[other_side(c)].oid = 0
    /\ AtPath(prov[other_side(c)], FilePath(other_side(c), n)) = {}
    /\ FilePath(other_side(c), n) \notin DOMAIN paths[other_side(c)]

\* side s = other_side(c) holds a file at the translated path whose hash is
\* the hash of E's file on side c, and E has left the changeset
Propagated(E, c, n) ==
    /\ E \notin changeset
    /\ Alive(prov[c], ents[E].st[c].oid)
    /\ \E o \in AtPath(prov[other_side(c)], translate(other_side(c), FilePath(c, n))) :
          /\ prov[other_side(c)][o].otype = FILE
          /\ ProvHashOid(prov[other_side(c)], o) = ProvHashOid(prov[c], ents[E].st[c].oid)

AtSyncedPath(E, x) ==
    /\ Alive(prov[x], ents[E].st[x].oid)
    /\ prov[x][ents[E].st[x].oid].path = ents[E].st[x].path
    /\ ents[E].st[x].path = ents[E].st[x].sync_path

\* side s of file E is in sync: nothing pending, the content there is the
\* content last synced, and the hash recorded for it (when one is) is the
\* synced one
SideInSync(E, s) ==
    /\ ~ents[E].st[s].changed
    /\ ents[E].st[s].exists = EXISTS
    /\ AtSyncedPath(E, s)
    /\ ProvHashOid(prov[s], ents[E].st[s].oid) = ents[E].st[s].sync_hash
    /\ ents[E].st[s].hash \in {0, ents[E].st[s].sync_hash}

\* file E is synced on both sides but for new content on side c, whose
\* update(c, FILE, oid, hash=new) is ingested; the user has stopped
ContentChanged(E, c) ==
    /\ quiet
    /\ E \in changeset
    /\ ~ents[E].discarded
    /\ ents[E].otype = FILE
    /\ SideInSync(E, other_side(c))
    /\ ents[E].st[c].changed
    /\ AtSyncedPath(E, c)
    /\ ents[E].st[c].hash = ProvHashOid(prov[c], ents[E].st[c].oid)
    /\ ents[E].st[c].hash # ents[E].st[c].sync_hash
    /\ ents[E].st[c].sync_hash # 0

\* the content of E is the same on both sides and sync_hash is its hash
ContentSynced(E, c) ==
    /\ E \notin changeset
    /\ Alive(prov[c], ents[E].st[c].oid)
    /\ Alive(prov[other_side(c)], ents[E].st[other_side(c)].oid)
    /\ prov[other_side(c)][ents[E].st[other_side(c)].oid].content
           = prov[c][ents[E].st[c].oid].content
    /\ \A x \in Sides : ents[E].st[x].sync_hash = ProvHashOid(prov[x], ents[E].st[x].oid)

\* the content of E is the same on both sides and sync_hash is its hash,
\* but the tick that uploaded it raised before finishing side c
ContentUploaded(E, c) ==
    /\ quiet
    /\ E \in changeset
    /\ ~ents[E].discarded
    /\ ents[E].otype = FILE
    /\ ents[E].st[c].changed
    /\ ~ents[E].st[other_side(c)].changed
    /\ \A x \in Sides :
          /\ AtSyncedPath(E, x)
          /\ ents[E].st[x].sync_hash = ProvHashOid(prov[x], ents[E].st[x].oid)
    /\ ents[E].st[c].hash = ents[E].st[c].sync_hash
    /\ ents[E].st[other_side(c)].sync_hash = ents[E].st[c].sync_hash

RenameChanged(E, c, o, n) ==
    /\ quiet
    /\ E \in changeset
    /\ ~ents[E].discarded
    /\ ents[E].otype = FILE
    /\ ents[E].st[c].changed
    /\ o # n
    /\ Alive(prov[c], ents[E].st[c].oid)
    /\ prov[c][ents[E].st[c].oid].path = FilePath(c, n)
    /\ ents[E].st[c].path = FilePath(c, n)
    /\ ents[E].st[c].sync_path = FilePath(c, o)
    /\ AtSyncedPath(E, other_side(c))
    /\ \A x \in Sides : ProvHashOid(prov[x], ents[E].st[x].oid) = ents[E].st[x].sync_hash
    /\ ents[E].st[c].hash = ents[E].st[c].sync_hash
    /\ ents[E].st[other_side(c)].path = translate(other_side(c), FilePath(c, o))
    /\ AtPath(prov[other_side(c)], translate(other_side(c), FilePath(c, n))) = {}

\* the rename on side c is consumed: the same object of the other side is
\* at the translated new path, nothing is at the translated old path, and
\* the entry has path = sync_path on both sides
RenameSynced(E, c, o, n) ==
    /\ ~ents[E].st[c].changed
    /\ Alive(prov[c], ents[E].st[c].oid)
    /\ prov[c][ents[E].st[c].oid].path = FilePath(c, n)
    /\ Alive(prov[other_side(c)], ents[E].st[other_side(c)].oid)
    /\ prov[other_side(c)][ents[E].st[other_side(c)].oid].path = translate(other_side(c), FilePath(c, n))
    /\ AtPath(prov[other_side(c)], translate(other_side(c), FilePath(c, o))) = {}
    /\ \A x \in Sides : ents[E].st[x].path = ents[E].st[x].sync_path
    /\ ents[E].st[c].path = FilePath(c, n)
    /\ ents[E].st[other_side(c)].path = translate(other_side(c), FilePath(c, n))

\* C3 (rename propagation): a file synced on both sides and renamed on
\* side c, the rename ingested, stays so while other entries are ticked; a
\* tick that samples it renames the same object of side s to
\* translate(s, new), leaves nothing at the translated old path and leaves
\* path = sync_path on both sides, except that when side s carries a
\* changed mark (set by a conflict of another entry) the tick may only
\* clear that mark and the next one renames.
C3_RenamePropagation ==
    [][\A E \in 1..Len(ents), c \in Sides, o \in Names, n \in Names :
          RenameChanged(E, c, o, n) =>
              IF ~TickedOn(E) THEN RenameChanged(E, c, o, n)'
              ELSE IF ents[E].st[other_side(c)].changed
              THEN RenameSynced(E, c, o, n)'
                   \/ (RenameChanged(E, c, o, n)' /\ ~ents'[E].st[other_side(c)].changed)
              ELSE RenameSynced(E, c, o, n)']_vars

\* a tick has just propagated a rename
C3_Witness ==
    /\ quiet
    /\ last.kind = "tick"
    /\ last.exc = "none"
    /\ last.side \in Sides
    /\ last.calls = {<<"rename", other_side(last.side)>>}
    /\ \E o \in Names, n \in Names : o # n /\ RenameSynced(last.ent, last.side, o, n)

\* entry E has an object and a synced path on both sides
WasSynced(E) ==
    \A x \in Sides : ents[E].st[x].oid # 0 /\ ents[E].st[x].sync_path # NoPath

\* the object of synced entry E is deleted on side c, the deletion is
\* ingested, and nothing has taken its path on side c since
DeletedOn(E, c) ==
    /\ WasSynced(E)
    /\ ents[E].st[c].exists = TRASHED
    /\ ~Alive(prov[c], ents[E].st[c].oid)
    /\ AtPath(prov[c], ents[E].st[c].path) = {}

\* C4 (deletion propagation): once the user has stopped and no tick will
\* sample E again (it has left the changeset or is discarded), a synced
\* object deleted on side c has its counterpart on side s deleted and
\* entry[s].exists = TRASHED, whatever occupied its path before.
C4_DeletionPropagation ==
    \A E \in 1..Len(ents), c \in Sides :
        (quiet /\ E \notin changeset \ Discarded(changeset) /\ DeletedOn(E, c)) =>
            /\ ~Alive(prov[other_side(c)], ents[E].st[other_side(c)].oid)
            /\ ents[E].st[other_side(c)].exists = TRASHED

\* the path of name n on side c, with the conflict suffix or without
ConflictPath(c, n, f) == IF f THEN FilePath(c, n) \o <<CONFLICTED>> ELSE FilePath(c, n)

\* file E made on side c is at path there, ingested and never synced
PendingAt(E, c, path) ==
    /\ E \in changeset
    /\ ~ents[E].discarded
    /\ ents[E].otype = FILE
    /\ ents[E].st[c].changed
    /\ Alive(prov[c], ents[E].st[c].oid)
    /\ prov[c][ents[E].st[c].oid].path = path
    /\ ents[E].st[c].path = path
    /\ ents[E].st[c].sync_path = NoPath
    /\ ents[E].st[other_side(c)].oid = 0

\* file E made on side c is at path there, its counterpart is at the
\* translated path with the same content, and E has left the changeset
DoneAt(E, c, path) ==
    /\ E \notin changeset
    /\ ents[E].otype = FILE
    /\ \A x \in Sides :
          Alive(prov[x], ents[E].st[x].oid) /\ prov[x][ents[E].st[x].oid].otype = FILE
    /\ prov[c][ents[E].st[c].oid].path = path
    /\ prov[other_side(c)][ents[E].st[other_side(c)].oid].path = translate(other_side(c), path)
    /\ prov[c][ents[E].st[c].oid].content
         = prov[other_side(c)][ents[E].st[other_side(c)].oid].content

\* <<f1, f2, d1, d2>>: which of the two files carries the conflict suffix
\* and which is synced; at most one is renamed, and none is synced before
ConflictStages ==
    {t \in BOOLEAN \X BOOLEAN \X BOOLEAN \X BOOLEAN :
        ~(t[1] /\ t[2]) /\ ((t[3] \/ t[4]) => (t[1] \/ t[2]))}

Progress(t) == Cardinality({i \in 1..4 : t[i]})

\* E1 made on LOCAL and E2 made on REMOTE at name n, with different
\* contents, are at stage t of their conflict; the paths n and
\* n.conflicted hold no other object on either side; the user has stopped
ConflictStage(E1, E2, n, t) ==
    /\ quiet
    /\ E1 # E2
    /\ \A x \in Sides, f \in BOOLEAN :
          AtPath(prov[x], ConflictPath(x, n, f)) \subseteq {ents[E1].st[x].oid, ents[E2].st[x].oid}
    /\ IF t[3] THEN DoneAt(E1, LOCALSIDE, ConflictPath(LOCALSIDE, n, t[1]))
       ELSE PendingAt(E1, LOCALSIDE, ConflictPath(LOCALSIDE, n, t[1]))
    /\ IF t[4] THEN DoneAt(E2, REMOTE, ConflictPath(REMOTE, n, t[2]))
       ELSE PendingAt(E2, REMOTE, ConflictPath(REMOTE, n, t[2]))
    /\ prov[LOCALSIDE][ents[E1].st[LOCALSIDE].oid].content
         # prov[REMOTE][ents[E2].st[REMOTE].oid].content

ReplacedOn(R, r) ==
    /\ ents[R].st[r].path # NoPath
    /\ ents[R].st[r].path[Len(ents[R].st[r].path)] = CONFLICTED
    /\ Alive(prov[r], ents[R].st[r].oid)
    /\ prov[r][ents[R].st[r].oid].path = ents[R].st[r].path
    /\ R \in lookup_path(Mach, r, ents[R].st[r].path)

\* C6 (hash conflict): a tick that samples an entry for which
\* hash_conflict() holds splits it: it raises nothing, its only provider
\* call is the rename of the replace side's object to path.conflicted,
\* the path index of that side records the renamed entry, and the defer
\* side is left with changed set.
C6_HashConflict ==
    (last.kind = "tick" /\ last.branch = "hash_conflict") =>
        /\ last.exc = "none"
        /\ \E r \in Sides :
              /\ last.calls = {<<"rename", r>>}
              /\ \E R \in 1..Len(ents) : ReplacedOn(R, r)
              /\ \E D \in 1..Len(ents) : ents[D].st[other_side(r)].changed

\* file E, synced on both sides at name o with unchanged content, has been
\* renamed to n0 on LOCAL and to n1 on REMOTE, both renames ingested, and
\* the three names hold nothing else on either side
PathConflicted(E, o, n0, n1) ==
    /\ E \in changeset
    /\ ~ents[E].discarded
    /\ ents[E].otype = FILE
    /\ o # n0 /\ o # n1 /\ n0 # n1
    /\ \A x \in Sides :
          /\ ents[E].st[x].changed
          /\ Alive(prov[x], ents[E].st[x].oid)
          /\ prov[x][ents[E].st[x].oid].path = ents[E].st[x].path
          /\ ents[E].st[x].sync_path = FilePath(x, o)
          /\ ProvHashOid(prov[x], ents[E].st[x].oid) = ents[E].st[x].sync_hash
          /\ \A n \in {o, n0, n1} : AtPath(prov[x], FilePath(x, n)) \subseteq {ents[E].st[x].oid}
    /\ ents[E].st[LOCALSIDE].path = FilePath(LOCALSIDE, n0)
    /\ ents[E].st[REMOTE].path = FilePath(REMOTE, n1)

\* the objects of E are at name w on both sides, and nothing is at the
\* original name o or the losing name l on either side
ResolvedTo(E, o, w, l) ==
    \A x \in Sides :
        /\ Alive(prov[x], ents[E].st[x].oid)
        /\ prov[x][ents[E].st[x].oid].path = FilePath(x, w)
        /\ ents[E].st[x].path = FilePath(x, w)
        /\ AtPath(prov[x], FilePath(x, o)) = {}
        /\ AtPath(prov[x], FilePath(x, l)) = {}

TickChanges(e) ==
    <<do(Mach, e).ents, do(Mach, e).oids, do(Mach, e).paths, do(Mach, e).cs,
      do(Mach, e).prov, do(Mach, e).tmp, do(Mach, e).store, do(Mach, e).nsid>>
        # <<ents, oids, paths, changeset, prov, tmp, store, nsid>>

\* some tick can still change something
CanProgress ==
    \/ Discarded(changeset) # {}
    \/ \E e \in changeset : TickChanges(e)

\* side x holds a live file with content k at name n
HoldsAt(x, n, k) ==
    \E o \in AtPath(prov[x], FilePath(x, n)) : prov[x][o].otype = FILE /\ prov[x][o].content = k

\* LOCAL has gone through the cycle: a is the file made at c, b the file
\* made at a, c the file made at b, and the entries record these paths
CycleRenamed ==
    /\ HoldsAt(LOCALSIDE, "a", 3) /\ HoldsAt(LOCALSIDE, "b", 1) /\ HoldsAt(LOCALSIDE, "c", 2)
    /\ \A E \in 1..Len(ents) :
          prov[LOCALSIDE][ents[E].st[LOCALSIDE].oid].path = ents[E].st[LOCALSIDE].path

CycleSynced ==
    /\ changeset = {}
    /\ HoldsAt(REMOTE, "a", 3) /\ HoldsAt(REMOTE, "b", 1) /\ HoldsAt(REMOTE, "c", 2)

\* C8 (3-cycle rename): once LOCAL has performed the cycle on three synced
\* files, the updates are ingested and the user has stopped, the ticks
\* empty the changeset with REMOTE holding a = the content made at c,
\* b = the content made at a, c = the content made at b: until then some
\* tick still changes something.
C8_CycleRename ==
    (quiet /\ CycleRenamed) => (CycleSynced \/ CanProgress)

\* every live file of either side has a live file with the same content at
\* the translated path on the other side
SidesIdentical ==
    \A x \in Sides : \A o \in 1..Len(prov[x]) :
        (Alive(prov[x], o) /\ prov[x][o].otype = FILE) =>
            \E q \in AtPath(prov[other_side(x)], translate(other_side(x), prov[x][o].path)) :
                /\ prov[other_side(x)][q].otype = FILE
                /\ prov[other_side(x)][q].content = prov[x][o].content

\* C9 (eventual convergence): once the user has stopped, the ticks reach a
\* state where the changeset is empty and the two sides hold identical
\* content at corresponding paths: until then some tick still changes
\* something.
C9_Convergence ==
    quiet => (CanProgress \/ (changeset = {} /\ SidesIdentical))

\* C10 (index invariant): for every non-discarded entry E and side s,
\* lookup_oid(s, E[s].oid) is E when E[s].oid is set, and E is in
\* lookup_path(s, E[s].path) when E[s].path is set.
C10_IndexInvariant ==
    \A E \in 1..Len(ents), s \in Sides :
        ~ents[E].discarded =>
            /\ ents[E].st[s].oid # 0 => lookup_oid(Mach, s, ents[E].st[s].oid) = E
            /\ ents[E].st[s].path # NoPath => E \in lookup_path(Mach, s, ents[E].st[s].path)

\* C11 (changeset invariant): every entry with changed set on some side is
\* a member of the changeset, and every member of the changeset has changed
\* set on some side or is discarded.
C11_ChangesetInvariant ==
    /\ \A E \in 1..Len(ents) :
          (\E s \in Sides : ents[E].st[s].changed) => E \in changeset
    /\ \A E \in changeset :
          ents[E].discarded \/ \E s \in Sides : ents[E].st[s].changed

\* C12 (one entry per (side, oid)): no two non-discarded entries hold the
\* same oid on the same side.
C12_OneEntryPerOid ==
    \A E1 \in 1..Len(ents), E2 \in 1..Len(ents), s \in Sides :
        (E1 # E2 /\ ~ents[E1].discarded /\ ~ents[E2].discarded /\ ents[E1].st[s].oid # 0)
            => ents[E1].st[s].oid # ents[E2].st[s].oid

\* storage_update(E) was the last statement of the last operation: an
\* update() or a tick of do() that raised nothing
StorageUpdated(E) ==
    /\ last.kind # "init"
    /\ last.ent = E
    /\ last.exc = "none"

\* E is clean and the storage holds what the claim says: no row when E is
\* discarded, else E's serialized form at E.storage_id
StoredRight(E) ==
    /\ ~ents[E].dirty
    /\ ents[E].storage_id # 0
    /\ IF ents[E].discarded THEN ents[E].storage_id \notin DOMAIN store
       ELSE /\ ents[E].storage_id \in DOMAIN store
            /\ store[ents[E].storage_id] = serialize(ents[E])

\* C13 (storage_update): after storage_update(E) returns, E.dirty is false
\* and E is absent from the storage when discarded, else read_all maps
\* E.storage_id to E's serialized form; a storage_id once assigned never
\* changes, and no two entries are given the same one.
C13_StorageUpdate ==
    [][/\ \A E \in 1..Len(ents') : StorageUpdated(E)' => StoredRight(E)'
       /\ \A E \in 1..Len(ents) :
             ents[E].storage_id # 0 => ents'[E].storage_id = ents[E].storage_id
       /\ \A E1 \in 1..Len(ents'), E2 \in 1..Len(ents') :
             (E1 # E2 /\ ents'[E1].storage_id # 0)
                 => ents'[E1].storage_id # ents'[E2].storage_id]_vars

\* a tick has discarded an entry and storage_update has deleted its row
C13_Witness ==
    /\ last.kind = "tick"
    /\ last.exc = "none"
    /\ last.ent # 0
    /\ ents[last.ent].discarded
    /\ StoredRight(last.ent)

\* the fields of an entry that its blob carries
BlobFields(ent) ==
    [st |-> ent.st, otype |-> ent.otype, temp_file |-> ent.temp_file, discarded |-> ent.discarded]

\* C14 (serialization round trip): for every entry E,
\* deserialize(serialize(E)) equals E field by field on both sides.
C14_RoundTrip ==
    \A E \in 1..Len(ents) :
        BlobFields(deserialize(ents[E], ents[E].storage_id, serialize(ents[E])))
            = BlobFields(ents[E])

\* what identifies and describes a persisted entry: its storage id and the
\* fields of its blob
StoredFields(ent) == [storage_id |-> ent.storage_id, fields |-> BlobFields(ent)]

\* the oids and the paths that some entry records on side s
SetOids(s) == {ents[E].st[s].oid : E \in 1..Len(ents)} \ {0}

SetPaths(s) == {ents[E].st[s].path : E \in 1..Len(ents)} \ {NoPath}

\* the lookups of the state answer for every entry, and only for entries
LookupsRight ==
    \A s \in Sides :
        /\ \A E \in 1..Len(ents) :
              /\ ents[E].st[s].oid # 0 => lookup_oid(Mach, s, ents[E].st[s].oid) = E
              /\ ents[E].st[s].path # NoPath => E \in lookup_path(Mach, s, ents[E].st[s].path)
        /\ \A o \in (DOMAIN oids[s]) \ SetOids(s) : lookup_oid(Mach, s, o) = 0
        /\ \A p \in (DOMAIN paths[s]) \ SetPaths(s) : lookup_path(Mach, s, p) = {}

\* C15 (rehydration equivalence): a SyncState constructed from the storage a
\* previous SyncState wrote holds one entry per stored row, each with dirty
\* false; its get_all() equals the previous state's non-discarded entries
\* field by field; lookup_oid and lookup_path return the corresponding entry
\* for every set oid and path of every side, and nothing for an oid or a
\* path that no entry records.
C15_Rehydration ==
    [][last'.kind = "restart" =>
          /\ Len(ents') = Cardinality(DOMAIN store)
          /\ \A E \in 1..Len(ents') : ~ents'[E].dirty
          /\ {StoredFields(ents'[E]) : E \in get_all(Mach)'}
                = {StoredFields(ents[E]) : E \in get_all(Mach)}
          /\ LookupsRight']_vars

\* the entries change() can return: the non-discarded members of the
\* changeset, each drawn with positive probability
Sampled == changeset \ Discarded(changeset)

\* C16 (change selection): change() returns only non-discarded members of
\* the changeset, and under fair sampling every non-discarded entry with
\* changed set is eventually returned: once the user has stopped (no more
\* update() calls, the only way into the changeset), such an entry is among
\* those change() can return.
C16_ChangeSelection ==
    quiet =>
        \A E \in 1..Len(ents) :
            (~ents[E].discarded /\ \E s \in Sides : ents[E].st[s].changed) => E \in Sampled

\* C17 (discarded entries, as the claim states it): in every reachable
\* state a discarded entry is not in the changeset, is not returned by
\* get_all(), and once written has no row in the storage.
C17_DiscardedExcluded ==
    \A E \in 1..Len(ents) :
        ents[E].discarded =>
            /\ E \notin changeset
            /\ E \notin get_all(Mach)
            /\ ~ents[E].dirty => ents[E].storage_id \notin DOMAIN store

\* the step is a tick of do()
IsTick == last'.kind = "tick" /\ quiet' = quiet /\ vars' # vars

\* C17 (discarded entries, as the code has it): a discarded entry can stay
\* in the changeset, but change() never returns it: no tick works on an
\* entry that is discarded, and a tick in which change() returns None
\* leaves the changeset empty; get_all() does not return it; and once
\* storage_update has written it, it has no row in the storage.
C17_DiscardedSkipped ==
    [][/\ IsTick =>
             /\ last'.ent # 0 => ~ents[last'.ent].discarded
             /\ last'.ent = 0 => changeset' = {}
       /\ \A E \in 1..Len(ents') :
             ents'[E].discarded =>
                 /\ E \notin get_all(Mach)'
                 /\ ~ents'[E].dirty => ents'[E].storage_id \notin DOMAIN store']_vars

\* a discarded entry is in the changeset, its row deleted, and a tick has
\* just worked on another entry
C17_Witness ==
    /\ last.kind = "tick"
    /\ last.ent # 0
    /\ \E E \in changeset :
          /\ E # last.ent
          /\ ents[E].discarded
          /\ ~ents[E].dirty
          /\ ents[E].storage_id \notin DOMAIN store

\* entry E as the tick sees it at the call of the translator: after
\* get_latest_state and, when the path of side c is absent, update_sync_path
AtTranslate(E, c) ==
    IF get_latest_state(Mach, E).ents[E].st[c].path = NoPath
    THEN update_sync_path(get_latest_state(Mach, E), E, c)
    ELSE get_latest_state(Mach, E)

\* a tick on E reaches the translator in handle_path_change_or_creation
\* with side c as the changed side, and the translator gives None for the
\* path of side c
NullTranslated(E, c) ==
    /\ E \in Sampled
    /\ ~hash_conflict(get_latest_state(Mach, E).ents[E])
    /\ ~path_conflict(get_latest_state(Mach, E).ents[E])
    /\ first_changed(ents[E]) = c
    /\ get_latest_state(Mach, E).ents[E].st[c].exists # TRASHED
    /\ \/ is_path_change(get_latest_state(Mach, E).ents[E], c)
       \/ is_creation(get_latest_state(Mach, E).ents[E], c)
    /\ Ok(AtTranslate(E, c))
    /\ AtTranslate(E, c).ents[E].st[c].exists # TRASHED
    /\ self_translate(Mach, other_side(c), AtTranslate(E, c).ents[E].st[c].path) = NoPath

\* C18 (null translation): when the translator returns None for the path
\* of the changed side, the tick issues no provider operation on the other
\* side, writes no sync_path and no sync_hash on either side, clears
\* changed on the processed side, and the entry leaves the changeset unless
\* the other side is still changed.
C18_NullTranslation ==
    [][\A E \in 1..Len(ents), c \in Sides :
          (NullTranslated(E, c) /\ IsTick /\ last'.ent = E) =>
              /\ \A call \in last'.calls : call[2] # other_side(c)
              /\ prov'[other_side(c)] = prov[other_side(c)]
              /\ \A x \in Sides :
                    /\ ents'[E].st[x].sync_path = ents[E].st[x].sync_path
                    /\ ents'[E].st[x].sync_hash = ents[E].st[x].sync_hash
              /\ ~ents'[E].st[c].changed
              /\ E \in changeset' <=> ents'[E].st[other_side(c)].changed]_vars

\* a tick has ignored a file whose path has no translation: the file was
\* made on side c, is still alive there, and the other side has nothing
C18_Witness ==
    /\ last.kind = "tick"
    /\ last.exc = "none"
    /\ last.resp = FINISHED
    /\ last.calls = {}
    /\ last.side \in Sides
    /\ last.ent \notin changeset
    /\ Alive(prov[last.side], ents[last.ent].st[last.side].oid)
    /\ self_translate(Mach, other_side(last.side), ents[last.ent].st[last.side].path) = NoPath
    /\ ents[last.ent].st[last.side].path # NoPath
    /\ ents[last.ent].st[last.side].sync_path = NoPath
    /\ ents[last.ent].st[other_side(last.side)].oid = 0

\* what the claim compares: the entries, the indices and the providers
EngineState(M) == <<M.ents, M.oids, M.paths, M.prov>>

\* the machine a second call of sync starts from: the one the first call
\* left, its exception (if any) caught by the caller
Again(M) == [M EXCEPT !.exc = "none", !.calls = {}, !.branch = "none", !.side = -1, !.resp = -1]

\* C19 (idempotence, as the claim states it): for every entry E, running
\* sync(E) twice with no external change in between yields the same entry
\* state, index state and provider state as running it once.
C19_Idempotent ==
    \A E \in 1..Len(ents) :
        EngineState(sync(Again(sync(Mach, E)), E)) = EngineState(sync(Mach, E))

\* sync(E) leaves E with changed unset on both sides
Settles(E) ==
    /\ Ok(sync(Mach, E))
    /\ \A s \in Sides : ~sync(Mach, E).ents[E].st[s].changed

\* C19 (idempotence, as the code has it): when sync(E) raises nothing and
\* leaves E with changed unset on both sides, a second sync(E) with no
\* external change in between raises nothing and changes nothing.
C19_IdempotentOnceSettled ==
    \A E \in 1..Len(ents) :
        LET once == sync(Mach, E)
            twice == sync(Again(once), E)
        IN (Ok(once) /\ \A s \in Sides : ~once.ents[E].st[s].changed) =>
               (Ok(twice) /\ Again(twice) = Again(once))

\* sync(E) on an entry of the changeset creates, uploads, renames or
\* deletes on a provider and leaves E with changed unset on both sides
C19_Witness ==
    \E E \in Sampled :
        /\ Settles(E)
        /\ sync(Mach, E).calls # {}
        /\ sync(Mach, E).prov # prov

\* a side state whose hash and path agree with what was last synced,
\* where both are known
HashAndPathSynced(x) ==
    /\ (x.hash # 0 /\ x.sync_hash # 0) => x.hash = x.sync_hash
    /\ (x.path # NoPath /\ x.sync_path # NoPath) => x.path = x.sync_path

\* C20 (quiescent entries are fully in sync): a non-discarded entry that
\* has changed unset on both sides and exists on both sides has
\* hash = sync_hash and path = sync_path on each side where they are known.
C20_QuiescentInSync ==
    \A e \in 1..Len(ents) :
        (/\ ~ents[e].discarded
         /\ \A s \in Sides : ~ents[e].st[s].changed /\ ents[e].st[s].exists = EXISTS)
            => \A s \in Sides : HashAndPathSynced(ents[e].st[s])

\* the step is a tick whose delete_synced deletes, on side s, a live file
\* whose content there is not the content last synced
DeletesEdited(s) ==
    /\ IsTick
    /\ <<"delete", s>> \in last'.calls
    /\ last'.ent \in 1..Len(ents)
    /\ ents[last'.ent].otype = FILE
    /\ Alive(prov[s], ents[last'.ent].st[s].oid)
    /\ ~Alive(prov'[s], ents[last'.ent].st[s].oid)
    /\ ProvHashOid(prov[s], ents[last'.ent].st[s].oid) # ents[last'.ent].st[s].sync_hash

\* C21 (delete never destroys unsynced content): a deletion propagated by
\* delete_synced to side s never deletes an object whose content on side s
\* differs from the last synced content.
C21_DeleteKeepsEdits == [][\A s \in Sides : ~DeletesEdited(s)]_vars

\* the last tick took the path-conflict branch for entry E and its rename
\* of the losing side succeeded; the user has stopped
ConflictRenamed(E) ==
    /\ quiet
    /\ last.kind = "tick"
    /\ last.ent = E
    /\ last.branch = "path_conflict"
    /\ last.exc = "none"
    /\ \E s \in Sides : <<"rename", s>> \in last.calls

\* entry E is done: path = sync_path and changed unset on both sides, and
\* E is out of the changeset
PathSettled(E) ==
    /\ E \notin changeset
    /\ \A s \in Sides : ~ents[E].st[s].changed /\ ents[E].st[s].path = ents[E].st[s].sync_path

\* C22 (path conflict terminates): after a tick has resolved a path
\* conflict by renaming the losing side, with no further external change
\* the ticks reach a state in which the entry has path = sync_path and
\* changed unset on both sides and is out of the changeset: until then
\* some tick still changes something.
C22_PathConflictTerminates ==
    \A E \in 1..Len(ents) :
        ConflictRenamed(E) => (PathSettled(E) \/ CanProgress)

\* the synced file of entry E1 at name n on side c is deleted, a new file
\* (entry E2, another oid) with content k is made at the same path, both
\* events are ingested and the user has stopped
Recreated(E1, E2, c, n, k) ==
    /\ quiet
    /\ E1 # E2
    /\ ents[E1].otype = FILE /\ ents[E2].otype = FILE
    /\ WasSynced(E1)
    /\ ents[E1].st[c].path = FilePath(c, n)
    /\ ents[E1].st[c].exists = TRASHED
    /\ ~Alive(prov[c], ents[E1].st[c].oid)
    /\ ents[E2].st[c].path = FilePath(c, n)
    /\ ents[E2].st[c].oid # 0
    /\ ents[E2].st[c].oid # ents[E1].st[c].oid
    /\ Alive(prov[c], ents[E2].st[c].oid)
    /\ prov[c][ents[E2].st[c].oid].path = FilePath(c, n)
    /\ prov[c][ents[E2].st[c].oid].content = k

\* the creation has won: the old entry is discarded, the other side holds
\* the new content at the translated path, the new entry is done
CreationWon(E1, E2, c, n, k) ==
    /\ ents[E1].discarded
    /\ HoldsAt(other_side(c), n, k)
    /\ E2 \notin changeset

\* C23 (creation wins over deletion at the same path): when a synced object
\* at path p on side c is deleted and a new object is created at p on side
\* c, and both events are ingested, the ticks discard the old entry and
\* leave the other side holding the new object's content at translate(p),
\* with the new entry out of the changeset: until then some tick still
\* changes something.
C23_CreationWins ==
    \A E1 \in 1..Len(ents), E2 \in 1..Len(ents), c \in Sides, n \in Names, k \in Contents :
        Recreated(E1, E2, c, n, k) => (CreationWon(E1, E2, c, n, k) \/ CanProgress)

\* entry E is in the bucket of path on side s of the path index P
InBucket(P, s, path, E) ==
    path \in DOMAIN P[s] /\ E \in Values(P[s][path])

\* the step is update(side, otype, oid, path=new) for an oid the state
\* knows: the event of a rename by the user
PathUpdate(E) ==
    /\ last'.kind = "rename"
    /\ last'.ent = E
    /\ ops' = ops + 1
    /\ E \in 1..Len(ents)

\* C24 (path reassignment through update): in every reachable state
\* update(side, otype, oid, path=new) for a known oid completes without
\* raising, and on the side whose path it changes the entry is no longer in
\* the bucket of the old path and is in the bucket of the new one.
C24_PathReassignment ==
    [][\A E \in 1..Len(ents) :
          PathUpdate(E) =>
              /\ last'.exc = "none"
              /\ \E s \in Sides : ents'[E].st[s].path # ents[E].st[s].path
              /\ \A s \in Sides :
                    ents'[E].st[s].path # ents[E].st[s].path =>
                        /\ InBucket(paths', s, ents'[E].st[s].path, E)
                        /\ ~InBucket(paths', s, ents[E].st[s].path, E)]_vars

\* the step is the tick that samples entry E right after the echo of the
\* engine's write to it was ingested
TickAfterEcho(E) ==
    /\ last.kind = "echo"
    /\ last.ent = E
    /\ IsTick
    /\ last'.ent = E

\* the sync witnesses of an entry
Witnesses(ent) == [s \in Sides |-> <<ent.st[s].sync_path, ent.st[s].sync_hash>>]

\* C25 (echo events are harmless): after the engine has propagated a
\* create, upload or rename to side s, ingesting through update(s, ...) the
\* event that reports the state the engine wrote completes, and the tick
\* that follows issues no provider operation, changes no sync_path or
\* sync_hash, and takes the entry out of the changeset.
C25_EchoHarmless ==
    [][/\ last'.kind = "echo" => (last'.exc = "none" /\ last'.ent \in changeset')
       /\ \A E \in 1..Len(ents) :
             TickAfterEcho(E) =>
                 /\ last'.exc = "none"
                 /\ last'.calls = {}
                 /\ prov' = prov
                 /\ Witnesses(ents'[E]) = Witnesses(ents[E])
                 /\ E \notin changeset']_vars

\* the step is an update() of the user's event, working on entry E
UpdateStep(E) ==
    /\ last'.kind \in {"create", "upload", "rename", "delete", "mkdir"}
    /\ last'.ent = E
    /\ ops' = ops + 1

\* C26 (events after discard are not lost): once an entry has been
\* discarded, a later update(side, otype, oid, ...) for the same oid
\* completes and leaves a non-discarded entry for that oid, in the
\* changeset for change() to return, whose persistence row exists.
C26_EventAfterDiscard ==
    [][\A E \in 1..Len(ents) :
          (ents[E].discarded /\ UpdateStep(E)) =>
              /\ last'.exc = "none"
              /\ ~ents'[E].discarded
              /\ E \in changeset'
              /\ ents'[E].storage_id \in DOMAIN store']_vars

\* the blob stored for entry E is its current serialized form
Persisted(E) ==
    /\ ents[E].storage_id \in DOMAIN store
    /\ store[ents[E].storage_id] = serialize(ents[E])

\* C27 (persistence follows memory): at the end of every update() call and
\* every do() tick that returns normally, the blob stored for every
\* non-discarded entry equals its current serialized form.
C27_PersistenceFollowsMemory ==
    (last.kind \in {"create", "upload", "rename", "delete", "mkdir", "tick"} /\ last.exc = "none") =>
        \A E \in 1..Len(ents) : ~ents[E].discarded => Persisted(E)

\* the operations by which the engine propagates a change to a side
Propagations == {"create", "upload", "rename", "mkdir"}

\* what a tick raises when its provider operation failed: the provider's
\* errors, and the NotImplementedError the engine turns a failed upload or
\* mkdir into
ProviderErrors == {"Exists", "NotFound", "NotImplementedError"}

\* the step is a tick that propagated a change of entry E to the other
\* side: the provider operation was issued there and did not fail, and the
\* tick did not answer REQUEUE
PropagatedBy(E) ==
    /\ IsTick
    /\ last'.ent = E
    /\ last'.branch = "embrace"
    /\ last'.exc \notin ProviderErrors
    /\ last'.resp # REQUEUE
    /\ \E op \in Propagations : <<op, other_side(last'.side)>> \in last'.calls

FailedTick(E) ==
    /\ IsTick
    /\ last'.ent = E
    /\ last'.exc # "none"

\* C29 (failed ticks are retried): when a tick ends in an error the engine
\* does not handle, the sampled entry remains in the changeset and changed
\* stays set on every side where it was set, the side being processed
\* among them: no failure path clears changed or removes the entry.
C29_FailedTickRetried ==
    [][\A E \in 1..Len(ents) :
          FailedTick(E) =>
              /\ E \in changeset'
              /\ \E s \in Sides : ents[E].st[s].changed
              /\ \A s \in Sides : ents[E].st[s].changed => ents'[E].st[s].changed
              /\ last'.side \in Sides => ents'[E].st[last'.side].changed]_vars

\* a tick raised the provider's error after calling it
C29_Witness ==
    /\ last.kind = "tick"
    /\ last.exc \in ProviderErrors
    /\ last.calls # {}
    /\ last.ent \in changeset
    /\ last.side \in Sides

\* the step is a tick on file entry E, changed on side c, that called the
\* provider's create on the other side
CreateTick(E, c) ==
    /\ IsTick
    /\ last'.ent = E
    /\ last'.branch = "embrace"
    /\ last'.side = c
    /\ ents[E].otype = FILE
    /\ <<"create", other_side(c)>> \in last'.calls

\* the path entry E is to be created at on the side other than c
CreatePath(E, c) == translate(other_side(c), ents[E].st[c].path)

\* the provider's create found the path taken: the parent folder is
\* there, something is at the path, and E has no object on that side
FoundExists(E, c) ==
    /\ ents[E].st[other_side(c)].oid = 0
    /\ ParentError(prov[other_side(c)], CreatePath(E, c)) = "none"
    /\ AtPath(prov[other_side(c)], CreatePath(E, c)) # {}

\* the file of E is made on the side other than c and recorded
CreatedOn(E, c) ==
    /\ ents[E].st[other_side(c)].oid # 0
    /\ Alive(prov[other_side(c)], ents[E].st[other_side(c)].oid)
    /\ prov[other_side(c)][ents[E].st[other_side(c)].oid].path = CreatePath(E, c)

\* C30 (create_synced fallbacks): when the provider's create raises
\* NotFound, the parent folders of the translated path are made and the
\* create is tried again; when create raises Exists, on the first attempt
\* or on the retry, create_synced returns REQUEUE, writes no sync witness,
\* and the entry stays in the changeset with changed set.
C30_CreateFallbacks ==
    [][\A E \in 1..Len(ents), c \in Sides :
          CreateTick(E, c) =>
              /\ <<"mkdir", other_side(c)>> \in last'.calls =>
                    /\ AtPath(prov'[other_side(c)], Parent(CreatePath(E, c)')) # {}
                    /\ CreatedOn(E, c)' \/ FoundExists(E, c)'
              /\ FoundExists(E, c)' =>
                    /\ last'.exc = "none"
                    /\ last'.resp = REQUEUE
                    /\ Witnesses(ents'[E]) = Witnesses(ents[E])
                    /\ E \in changeset'
                    /\ ents'[E].st[c].changed]_vars

\* the step is a tick on entry E that took side c for deleted: after
\* get_latest_state side c is TRASHED, no other entry is filed under its
\* path on side c, and embrace_change worked on side c
DeleteTick(E, c) ==
    /\ IsTick
    /\ last'.ent = E
    /\ last'.branch = "embrace"
    /\ last'.side = c
    /\ get_latest_state(Mach, E).ents[E].st[c].exists = TRASHED
    /\ lookup_path(Mach, c, ents[E].st[c].path) \ {E} = {}

\* the tick issued no provider operation on side s
NoCallOn(s) == \A call \in last'.calls : call[2] # s

\* side c of E is finished and side s is marked TRASHED
DeleteDone(E, c) ==
    /\ last'.exc = "none"
    /\ last'.resp = FINISHED
    /\ ents'[E].st[other_side(c)].exists = TRASHED
    /\ ~ents'[E].st[c].changed

\* C31 (idempotent delete): when side c of an entry is TRASHED and no other
\* entry shares its path on side c, the tick calls the provider's delete on
\* side s only if the oid there is known, takes NotFound for success, sets
\* exists of side s to TRASHED and finishes the entry; for an entry with no
\* oid on side s no provider operation is issued on side s.
C31_IdempotentDelete ==
    [][\A E \in 1..Len(ents), c \in Sides :
          DeleteTick(E, c) =>
              /\ <<"delete", other_side(c)>> \in last'.calls => ents[E].st[other_side(c)].oid # 0
              /\ ents[E].st[other_side(c)].oid = 0 => NoCallOn(other_side(c))
              /\ DeleteDone(E, c)]_vars

\* what the provider's delete on side s answers for the object of E there
DeleteAnswer(E, s) == ProvDelete(prov[s], ents[E].st[s].oid).exc

\* C31, amended: as C31 when the provider's delete succeeds or raises
\* NotFound; when it raises another error (a folder that is not empty on
\* side s) the tick ends in that error, exists of side s is left as it was
\* and the entry stays changed on side c and in the changeset.
C31_IdempotentDeleteUnlessRefused ==
    [][\A E \in 1..Len(ents), c \in Sides :
          DeleteTick(E, c) =>
              /\ <<"delete", other_side(c)>> \in last'.calls => ents[E].st[other_side(c)].oid # 0
              /\ ents[E].st[other_side(c)].oid = 0 => NoCallOn(other_side(c))
              /\ IF ents[E].st[other_side(c)].oid = 0
                    \/ DeleteAnswer(E, other_side(c)) \in {"none", "NotFound"}
                 THEN DeleteDone(E, c)
                 ELSE /\ last'.exc = DeleteAnswer(E, other_side(c))
                      /\ ents'[E].st[other_side(c)].exists = ents[E].st[other_side(c)].exists
                      /\ ents'[E].st[c].changed
                      /\ E \in changeset']_vars

\* a tick deleted the counterpart of an entry whose object was already gone
\* on the side the deletion came from, and finished the entry
C31_Witness ==
    /\ last.kind = "tick"
    /\ last.exc = "none"
    /\ last.branch = "embrace"
    /\ last.side \in Sides
    /\ <<"delete", other_side(last.side)>> \in last.calls
    /\ \A s \in Sides : ents[last.ent].st[s].exists = TRASHED
    /\ ~Alive(prov[other_side(last.side)], ents[last.ent].st[other_side(last.side)].oid)
    /\ last.ent \notin changeset

\* the paths mkdirs is asked for on side s: the root folder of the side, a
\* name in it, a name in a folder of it
MkdirsPaths(s) ==
    {<<SideRoot(s)>>}
        \cup {FilePath(s, n) : n \in Names}
        \cup {FilePath(s, n) \o <<"/", m>> : n \in Names, m \in Names}

\* the directories at a path
DirsAt(pr, path) == {o \in AtPath(pr, path) : pr[o].otype = DIRECTORY}

\* path and its ancestors below "/", top-down
RECURSIVE Lineage(_)
Lineage(path) ==
    IF Len(path) <= 1 THEN <<path>> ELSE Append(Lineage(Parent(path)), path)

\* the folders to make for path, top-down: those of its lineage with
\* nothing at them
Missing(pr, path) == SelectSeq(Lineage(path), LAMBDA p : AtPath(pr, p) = {})

\* pr with a new directory at each path of ps, in that order
RECURSIVE WithDirs(_, _)
WithDirs(pr, ps) ==
    IF ps = <<>> THEN pr
    ELSE WithDirs(Append(pr, [path |-> Head(ps), content |-> 0, otype |-> DIRECTORY,
                              alive |-> TRUE]),
                  Tail(ps))

\* C32 (mkdirs): for every path and every provider state mkdirs terminates;
\* if a directory already exists at the path it returns that directory's
\* oid and creates nothing; otherwise it creates exactly the missing
\* ancestors and the directory, top-down, and returns the oid of the new
\* directory.
C32_Mkdirs ==
    \A s \in Sides : \A path \in MkdirsPaths(s) :
        LET r == mkdirs(Mach, s, path)
        IN IF DirsAt(prov[s], path) # {}
           THEN /\ Ok(r.M)
                /\ r.ret \in DirsAt(prov[s], path)
                /\ r.M.prov = prov
           ELSE /\ Ok(r.M)
                /\ r.M.prov[s] = WithDirs(prov[s], Missing(prov[s], path))
                /\ r.M.prov[other_side(s)] = prov[other_side(s)]
                /\ r.ret \in DirsAt(r.M.prov[s], path)
                /\ r.ret = Len(r.M.prov[s])

\* the users have only made folders: every object of either provider is a
\* directory and none was removed
DirsOnly ==
    \A s \in Sides : \A o \in 1..Len(prov[s]) :
        prov[s][o].otype = DIRECTORY /\ prov[s][o].alive

\* the non-discarded entries
LiveEnts == {E \in 1..Len(ents) : ~ents[E].discarded}

\* entry E, which has a folder on side c, is materialized on the other
\* side: one directory is at the translated path there, E is bound to its
\* oid, and sync_path is set on both sides
Materialized(E, c) ==
    LET s == other_side(c)
        tp == translate(s, ents[E].st[c].path)
    IN /\ Cardinality(DirsAt(prov[s], tp)) = 1
       /\ ents[E].st[s].oid \in DirsAt(prov[s], tp)
       /\ ents[E].st[s].sync_path = tp
       /\ ents[E].st[c].sync_path = ents[E].st[c].path

\* no directory has two non-discarded entries
OneEntryPerDir ==
    \A s \in Sides : \A o \in 1..Len(prov[s]) :
        Cardinality({E \in LiveEnts : ents[E].st[s].oid = o}) <= 1

\* C33 (directory materialization): for directory entries made on a side,
\* a parent and its child sampled in either order, with or without a
\* directory already at the translated path on the other side, the ticks
\* reach a state with exactly one directory per translated path, each entry
\* bound to the oid of the directory at its translated path with sync_path
\* set on both sides, and at most one non-discarded entry per directory:
\* until then some tick still changes something.
C33_DirMaterialization ==
    DirsOnly =>
        \/ CanProgress
        \/ /\ changeset = {}
           /\ OneEntryPerDir
           /\ \A E \in LiveEnts, c \in Sides :
                 ents[E].st[c].path # NoPath => Materialized(E, c)

\* a folder and a folder in it, made on one side, are both materialized on
\* the other side and nothing is left to do
C33_Witness ==
    /\ DirsOnly
    /\ changeset = {}
    /\ last.kind = "tick"
    /\ \E c \in Sides, n \in Names : \E E1, E2 \in LiveEnts :
          /\ ents[E1].st[c].path = <<SideRoot(c)>>
          /\ ents[E2].st[c].path = FilePath(c, n)
          /\ Materialized(E1, c)
          /\ Materialized(E2, c)

\* the step is a tick on file entry E, changed on side c, that wrote the
\* file on the other side by create or upload and finished side c
TransferTick(E, c) ==
    /\ IsTick
    /\ last'.ent = E
    /\ last'.branch = "embrace"
    /\ last'.side = c
    /\ last'.exc = "none"
    /\ last'.resp = FINISHED
    /\ \E op \in {"create", "upload"} : <<op, other_side(c)>> \in last'.calls

\* the content the other side now holds for E is the one with the hash
\* recorded for side c
WroteRecorded(E, c) ==
    LET s == other_side(c)
    IN /\ Alive(prov'[s], ents'[E].st[s].oid)
       /\ HashOf(prov'[s][ents'[E].st[s].oid].content) = ents'[E].st[c].sync_hash

\* C34 (uploaded content matches the recorded hash): whenever a tick sets
\* sync_hash[c] to hash[c] after a create or upload on side s, the bytes
\* written to side s are the content of side c with that hash, so a temp
\* file kept from an earlier REQUEUE or failed tick of an older content is
\* never sent in place of the current content; and after a side finishes,
\* temp_file of the entry is unset and the file is removed.
C34_UploadMatchesHash ==
    [][\A E \in 1..Len(ents), c \in Sides :
          TransferTick(E, c) =>
              /\ ents'[E].st[c].sync_hash = ents'[E].st[c].hash
              /\ WroteRecorded(E, c)
              /\ ents'[E].temp_file = 0
              /\ ents[E].temp_file # 0 => ents[E].temp_file \notin DOMAIN tmp'
              /\ temp_file(ents'[E].st[c].hash) \notin DOMAIN tmp']_vars

\* the entries change() can return
LiveChanges(M) == {e \in M.cs : ~M.ents[e].discarded}

\* what the providers hold: the paths of the live objects, with their type
\* and content
Holdings(M) ==
    [s \in Sides |->
        {<<M.prov[s][o].path, M.prov[s][o].otype, M.prov[s][o].content>> :
            o \in {q \in 1..Len(M.prov[s]) : M.prov[s][q].alive}}]

\* the holdings reached when the changeset empties within n ticks, over
\* every order in which change() samples the entries; a tick that raises
\* leaves the state it made and the run goes on
RECURSIVE Outcomes(_, _)
Outcomes(M, n) ==
    IF LiveChanges(M) = {} THEN {Holdings(M)}
    ELSE IF n = 0 THEN {}
    ELSE UNION {Outcomes([do(M, e) EXCEPT !.exc = "none"], n - 1) : e \in LiveChanges(M)}

\* C35 (outcome independent of sampling order): for a fixed set of ingested
\* events and quiescent providers, the provider contents and paths reached
\* when the changeset empties are the same for every order in which
\* change() samples the entries.
C35_OrderIndependent ==
    quiet => Cardinality(Outcomes(Mach, MaxTicks)) <= 1

\* entry E has changed set on some side
Pending(E) == \E s \in Sides : ents[E].st[s].changed

\* C36 (pending work survives restart): every entry that was persisted
\* with changed set on some side is, in the SyncState constructed from
\* that storage, a member of the changeset, so has_changes() is true and
\* change() returns it.
C36_PendingSurvivesRestart ==
    last.kind = "restart" =>
        \A E \in 1..Len(ents) : Pending(E) => E \in changeset

\* C37 (no lost update under interleaving): if update(c, ...) for an entry
\* runs while a tick is processing side c of that entry, after
\* get_latest_state and before finished(c), the change it recorded is still
\* processed by a later tick: finished() neither clears the changed flag
\* the update set nor removes the entry from the changeset.
C37_NoLostUpdate ==
    [][last'.kind = "interleaved" =>
          /\ ents'[last'.ent].st[last'.side].changed
          /\ last'.ent \in changeset']_vars

\* the other entries filed at the path entry E is to be created at on the
\* side other than c that are not TRASHED on either side
OtherUntrashed(E, c) ==
    {x \in lookup_path(Mach, other_side(c), translate(other_side(c), ents[E].st[c].path)) \ {E} :
        ents[x].st[other_side(c)].exists # TRASHED /\ ents[x].st[c].exists # TRASHED}

\* C38 (disjoint-create assertion unreachable): in every state reachable by
\* update() calls and ticks, when check_disjoint_create runs for a file
\* creation at most one other entry at the translated path on side s is
\* not TRASHED on either side, so the assertion never fails.
C38_DisjointAssertion ==
    \A E \in changeset, c \in Sides :
        (/\ ents[E].otype = FILE
         /\ ents[E].st[c].changed
         /\ ents[E].st[c].path # NoPath
         /\ is_creation(ents[E], c)) =>
            /\ Cardinality(OtherUntrashed(E, c)) <= 1
            /\ check_disjoint_create(Mach, E, c, other_side(c),
                                     translate(other_side(c), ents[E].st[c].path)).M.exc
                   # "AssertionError"

\* a path string with "\\" read as "/" and the trailing separators dropped
Canonical(x) ==
    LET y == [i \in 1..Len(x) |-> IF x[i] = "\\" THEN "/" ELSE x[i]]
        n == CHOOSE k \in 0..Len(y) : /\ k > 0 => y[k] # "/"
                                      /\ \A i \in (k + 1)..Len(y) : y[i] = "/"
    IN SubSeq(y, 1, n)

\* path is from_dir or lies under it
AtOrUnder(path, from_dir) ==
    LET t == Canonical(path)
        f == Canonical(from_dir)
    IN \/ t = f
       \/ Len(t) > Len(f) /\ SubSeq(t, 1, Len(f)) = f /\ t[Len(f) + 1] = "/"

\* C39: replace_path(path, from_dir, to_dir) returns to_dir followed by the
\* part of path below from_dir whenever path is from_dir or lies under it
\* (to_dir itself when the two are equal), and raises when path is not
\* under from_dir.
C39_ReplacePath ==
    last.kind = "replace_path" =>
        LET path == last.args[1]
            from_dir == last.args[2]
            to_dir == last.args[3]
        IN IF AtOrUnder(path, from_dir)
           THEN /\ last.exc = "none"
                /\ last.ret = to_dir \o SubSeq(Canonical(path), Len(Canonical(from_dir)) + 1,
                                               Len(Canonical(path)))
           ELSE last.exc # "none"

====
